---- MODULE Spec2Model ----
(***************************************************************************)
(* Model of the BLE map updater's transfer engine                          *)
(* (src/src/protocol/map_transfer.py, class MapTransferManager) together   *)
(* with the files it reads and writes: the active map, the staging file,   *)
(* the backup directory and the backup_map symlink; of the authentication  *)
(* manager (src/src/protocol/authentication.py) and of the BLE server's    *)
(* connection and write handlers (src/src/ble/server.py).                  *)
(*                                                                         *)
(* Byte strings are sequences of small naturals.  Python values that may   *)
(* be absent are None (the empty tuple) or Some(v) (a one-element tuple).  *)
(***************************************************************************)
EXTENDS Integers, Sequences, FiniteSets, TLC

VARIABLES
    current_transfer,   \* MapTransferManager.current_transfer: None or Some(TransferSession)
    next_session,       \* number of session ids minted so far (uuid4 values are fresh)
    required_signature, \* config["security"]["required_signature"]
    active_map,         \* contents of the file at active_map_path: None or Some(bytes)
    temp_map,           \* contents of active_map_path.with_suffix('.tmp')
    backup_dir,         \* backup_map_<timestamp>.json files: set of [name, data]
    backup_map,         \* target of the backup_map symlink: None or Some(timestamp)
    now,                \* wall clock, in whole seconds (time.time / time.strftime);
                        \* no action of Spec advances it
    last_chunk_time,    \* MapTransferManager.last_chunk_time (rate limiting)
    call,               \* the last manager call: its name and its argument
    result,             \* the dictionary returned by the last manager call
    ended,              \* the session as the last call left it when it ended one
    active_at_start,    \* contents of active_map_path when the current session started
    commit_pc,          \* where steps 5 and 6 of _complete_transfer stand: "idle" outside
                        \* them, "crashed" once the process has died inside them
    observed,           \* what another process last read at active_map_path
    sessions,           \* AuthenticationManager.sessions: client_id -> AuthSession
    signature_enabled,  \* AuthenticationManager.signature_enabled
    next_challenge,     \* number of challenges drawn so far (secrets.token_hex is fresh)
    auth_call,          \* the last AuthenticationManager call: its name and arguments
    auth_result,        \* the dictionary returned by the last AuthenticationManager call
    verified,           \* the challenges verify_challenge_response has been called for
    failures,           \* per client, the verifications that did not authenticate
    issued,             \* the session ids returned by successful authentications
    current_client,     \* BLEMapServer.current_client: None or Some(client)
    connection_active,  \* BLEMapServer.connection_active
    authenticated,      \* BLEMapServer.authenticated
    transfer_in_progress, \* BLEMapServer.transfer_in_progress
    server_call,        \* the last BLEMapServer callback: its name and its message
    auth_message,       \* the last message notified on the auth characteristic
    status_message,     \* the last message notified on the status characteristic
    server_loop,        \* the loop of start_server: "running", or "raised" once an
                        \* exception has left it
    chunk_task,         \* where the task running _handle_chunk_data stands: "idle"
                        \* when there is none
    transition          \* the last call of TransferStateMachine and what it returned

\* The state of the transfer manager and of the files it owns.
transfer_vars == <<current_transfer, next_session, required_signature, active_map, temp_map,
                   backup_dir, backup_map, last_chunk_time, call, result, ended,
                   active_at_start, commit_pc, observed>>
\* The state of the authentication manager.
auth_vars == <<sessions, signature_enabled, next_challenge, auth_call, auth_result,
               verified, failures, issued>>
\* The state of the BLE server.
server_vars == <<current_client, connection_active, authenticated, transfer_in_progress,
                 server_call, auth_message, status_message, server_loop,
                 chunk_task, transition>>

vars == <<transfer_vars, now, auth_vars, server_vars>>

\* ------------------------------------------------------------------ bounds
\* config["ble"]["chunk_size"], scaled down from 128
chunk_size == 2
\* config["ble"]["max_transfer_size"], scaled down from 5 MiB
max_transfer_size == 3
\* number of sessions one run may start
MaxSessions == 2
\* cap on metrics.retries within one session
MaxRetries == 1

\* ------------------------------------------------------------ Python values
None == <<>>
Some(x) == <<x>>
IsSome(o) == o # <<>>
Get(o) == o[1]

\* A value that the code tests with isinstance(.., int): an int or something else.
PyInt(n) == [t |-> "int", v |-> n]
PyStr == [t |-> "str", v |-> 0]

Min(a, b) == IF a < b THEN a ELSE b

SetMin(S) == CHOOSE x \in S : \A y \in S : x <= y

\* sorted(list(S)) for a set of integers
RECURSIVE Sorted(_)
Sorted(S) == IF S = {} THEN <<>> ELSE <<SetMin(S)>> \o Sorted(S \ {SetMin(S)})

\* --------------------------------------------------------------- functions
\* hashlib.sha256(b).hexdigest(): collision free, and never equal to a string
\* that is not a digest (such strings are tuples starting with 0)
sha256(b) == <<256>> \o b
\* hashlib.md5(b).hexdigest()
md5(b) == <<5>> \o b
NotADigest == <<0>>

\* bytes.hex() and bytes.fromhex(): two hex digits per byte; digit 16 stands for
\* a character that is not a hex digit
ToHex(b) == [i \in 1..(2 * Len(b)) |-> IF i % 2 = 1 THEN b[(i + 1) \div 2] \div 16
                                                      ELSE b[i \div 2] % 16]
HexOk(s) == Len(s) % 2 = 0 /\ \A i \in 1..Len(s) : s[i] \in 0..15
FromHex(s) == [i \in 1..(Len(s) \div 2) |-> 16 * s[2 * i - 1] + s[2 * i]]

\* gzip: a stream is the magic byte followed by the stored payload
GzMagic == 1
gzip_compress(b) == <<GzMagic>> \o b
GzipOk(w) == Len(w) >= 1 /\ w[1] = GzMagic
gzip_decompress(w) == Tail(w)

\* json.loads of a map file.  First byte: 0 = not JSON, 1 = a JSON object without
\* the required fields, 2 = a map with "metadata" and "zones"; the second byte
\* of a map is metadata.version (absent in a one-byte map).
ParseJSON(b) ==
    IF Len(b) = 0 \/ b[1] = 0 THEN [kind |-> "not_json", has_version |-> FALSE, version |-> 0]
    ELSE IF b[1] = 1 THEN [kind |-> "object", has_version |-> FALSE, version |-> 0]
    ELSE IF Len(b) = 1 THEN [kind |-> "map", has_version |-> FALSE, version |-> 0]
    ELSE [kind |-> "map", has_version |-> TRUE, version |-> b[2]]

\* _validate_map_structure, after json.loads succeeded
ValidMapStructure(b) == ParseJSON(b).kind = "map" /\ ParseJSON(b).has_version

\* _get_current_map_version
GetCurrentMapVersion(file) ==
    IF file = None THEN 0
    ELSE IF ParseJSON(Get(file)).kind = "not_json" THEN 0
    ELSE IF ParseJSON(Get(file)).has_version THEN ParseJSON(Get(file)).version
    ELSE 0

\* _calculate_total_chunks
CalculateTotalChunks(file_size) == (file_size + chunk_size - 1) \div chunk_size

\* _validate_signature: a signature is modelled by its length
ValidateSignature(signature) ==
    IF ~required_signature THEN TRUE ELSE signature > 10

\* ------------------------------------------------------------- environment
\* The maps a sender may hold: two well-formed maps (versions 1 and 2) and three
\* files the structural check must refuse.
MapV1 == <<2, 1, 0>>
MapV2 == <<2, 2>>
NotJson == <<0>>
NoZones == <<1>>
NoVersion == <<2>>
SenderMaps == {MapV1, MapV2, NotJson, NoZones, NoVersion}
CompressibleMaps == {MapV1, MapV2}

\* The metadata an honest sender derives from map f, sent as compression c,
\* announcing version v.
HonestMetadata(f, c, v) ==
    [file_size |-> Some(PyInt(Len(f))),
     file_hash |-> Some(sha256(f)),
     version |-> Some(PyInt(v)),
     signature |-> Some(64),
     compression |-> IF c = "none" THEN None ELSE Some(c),
     compressed_size |-> IF c = "none" THEN None ELSE Some(Len(gzip_compress(f))),
     compressed_hash |-> IF c = "none" THEN None ELSE Some(sha256(gzip_compress(f)))]

\* The version a sender announces for f: the one inside the map, or one more.
AnnouncedVersions(f) ==
    IF ValidMapStructure(f) THEN {ParseJSON(f).version, ParseJSON(f).version + 1} ELSE {1}

\* Ill-formed or dishonest variants of one metadata record.
BrokenMetadata(m) ==
    {[m EXCEPT !.file_size = None],
     [m EXCEPT !.file_hash = None],
     [m EXCEPT !.version = None],
     [m EXCEPT !.file_size = Some(PyStr)],
     [m EXCEPT !.file_size = Some(PyInt(0))],
     [m EXCEPT !.file_size = Some(PyInt(max_transfer_size + 1))],
     [m EXCEPT !.version = Some(PyStr)],
     [m EXCEPT !.version = Some(PyInt(0))],
     [m EXCEPT !.signature = None],
     [m EXCEPT !.signature = Some(0)],
     [m EXCEPT !.signature = Some(5)],
     [m EXCEPT !.file_hash = Some(NotADigest)],
     [m EXCEPT !.file_size = Some(PyInt(Get(m.file_size).v - 1))]}

BrokenCompressedMetadata(m) ==
    {[m EXCEPT !.compressed_size = None, !.compressed_hash = None],
     [m EXCEPT !.compression = Some("lz4")],
     [m EXCEPT !.compressed_hash = Some(NotADigest)],
     [m EXCEPT !.compressed_size = Some(0)],
     [m EXCEPT !.compressed_size = Some(max_transfer_size + 1)],
     [m EXCEPT !.compression = Some("none")],
     [m EXCEPT !.file_hash = Some(NotADigest)]}

HonestMetadataSet ==
    UNION {{HonestMetadata(f, "none", v) : v \in AnnouncedVersions(f)} : f \in SenderMaps}
    \cup UNION {{HonestMetadata(f, "gzip", v) : v \in AnnouncedVersions(f)}
                : f \in CompressibleMaps}

Metadata ==
    HonestMetadataSet
    \cup BrokenMetadata(HonestMetadata(MapV1, "none", 1))
    \cup BrokenCompressedMetadata(HonestMetadata(MapV1, "gzip", 1))

\* ------------------------------------------------------------------ results
NoResult ==
    [status |-> "none", error_code |-> "", message |-> "",
     session_id |-> 0, chunk_index |-> -1, chunks_received |-> 0, total_chunks |-> 0,
     missing_chunks |-> <<>>, file_hash |-> <<>>, file_size |-> 0, new_version |-> 0]

ErrorResult(code, msg) ==
    [NoResult EXCEPT !.status = "error", !.error_code = code, !.message = msg]

\* The record of a call: metadata for start_transfer, chunk_data for receive_chunk.
Call(op, metadata, chunk_data) == [op |-> op, metadata |-> metadata, chunk_data |-> chunk_data]

\* ----------------------------------------------------------- start_transfer
\* The exception start_transfer raises for this metadata ("" when it raises none).
StartTransferError(metadata) ==
    IF metadata.file_size = None \/ metadata.file_hash = None \/ metadata.version = None
        THEN "Missing required field"
    ELSE IF Get(metadata.file_size).t # "int" \/ Get(metadata.file_size).v <= 0
        THEN "Invalid file_size"
    ELSE IF Get(metadata.file_size).v > max_transfer_size
        THEN "File too large"
    ELSE IF Get(metadata.version).t # "int"
        THEN "TypeError"
    ELSE IF Get(metadata.version).v <= GetCurrentMapVersion(active_map)
        THEN "Version too old"
    ELSE IF required_signature /\ (metadata.signature = None \/ Get(metadata.signature) = 0)
        THEN "Digital signature required"
    ELSE IF required_signature /\ ~ValidateSignature(Get(metadata.signature))
        THEN "Invalid signature"
    ELSE ""

\* The TransferSession start_transfer builds (steps 5 to 9).
NewSession(metadata, session_id) ==
    LET file_size == Get(metadata.file_size).v
        is_compressed == (IF metadata.compression = None THEN "none"
                          ELSE Get(metadata.compression)) # "none"
        compressed_size == IF metadata.compressed_size = None THEN file_size
                           ELSE Get(metadata.compressed_size)
        compressed_hash == IF metadata.compressed_hash = None THEN Get(metadata.file_hash)
                           ELSE Get(metadata.compressed_hash)
        effective_size == IF is_compressed THEN compressed_size ELSE file_size
        total_chunks == CalculateTotalChunks(effective_size)
    IN  [session_id |-> session_id,
         file_size |-> file_size,
         compressed_size |-> compressed_size,
         file_hash |-> Get(metadata.file_hash),
         compressed_hash |-> compressed_hash,
         total_chunks |-> total_chunks,
         chunks_received |-> 0,
         start_time |-> now,
         last_activity |-> now,
         metadata |-> metadata,
         received_chunks |-> <<>>,
         missing_chunks |-> 0..(total_chunks - 1),
         state |-> "metadata_received",
         metrics |-> [start_time |-> now, bytes_transferred |-> 0,
                      chunks_transferred |-> 0, retries |-> 0],
         is_compressed |-> is_compressed,
         compression_type |-> IF metadata.compression = None THEN "none"
                              ELSE Get(metadata.compression)]

StartTransfer(metadata) ==
    /\ next_session < MaxSessions
    /\ call' = Call("start_transfer", Some(metadata), None)
    /\ IF StartTransferError(metadata) = ""
       THEN LET s == NewSession(metadata, next_session + 1) IN
            /\ current_transfer' = Some(s)
            /\ next_session' = next_session + 1
            /\ active_at_start' = active_map
            /\ result' = [NoResult EXCEPT !.status = "ready",
                             !.session_id = s.session_id, !.total_chunks = s.total_chunks,
                             !.file_hash = IF s.is_compressed THEN s.compressed_hash
                                           ELSE s.file_hash]
       ELSE /\ result' = ErrorResult("INIT_FAILED",
                                     StartTransferError(metadata))
            /\ UNCHANGED <<current_transfer, next_session, active_at_start>>
    /\ ended' = None
    /\ UNCHANGED <<required_signature, active_map, temp_map, backup_dir, backup_map, now,
                   last_chunk_time, commit_pc, observed>>

\* ------------------------------------------------------------ receive_chunk
\* The wire files a sender may cut into chunks, and the payloads of its frames.
SenderWires == SenderMaps \cup {gzip_compress(f) : f \in CompressibleMaps}
Slice(w, i) == SubSeq(w, i * chunk_size + 1, Min(Len(w), (i + 1) * chunk_size))
MaxIndex == 2
Payloads(i) == {Slice(w, i) : w \in {x \in SenderWires : Len(x) > i * chunk_size}}
TooLong == [i \in 1..(chunk_size + 1) |-> 0]

\* A frame as the client builds it; sid says which session id it will carry:
\* the one the client was given ("own"), another one ("other"), the empty
\* string ("empty") or none at all ("absent").
FrameBody(i, hex, sid, sum) ==
    [chunk_index |-> i, data |-> hex, sid |-> sid, checksum |-> sum]

\* Well-formed frames, and ill-formed variants of the frame for chunk 0.
FrameBodies ==
    UNION {{FrameBody(Some(PyInt(i)), Some(ToHex(p)), "own", None) : p \in Payloads(i)}
           : i \in 0..MaxIndex}
    \cup {FrameBody(i, Some(ToHex(Slice(MapV1, 0))), "own", None) :
            i \in {None, Some(PyStr), Some(PyInt(-1)), Some(PyInt(MaxIndex + 1))}}
    \cup {FrameBody(Some(PyInt(0)), Some(ToHex(Slice(MapV1, 0))), sid, None) :
            sid \in {"absent", "empty", "other"}}
    \cup {FrameBody(Some(PyInt(0)), hex, "own", None) :
            hex \in {None, Some(<<0>>), Some(<<0, 16>>), Some(ToHex(<<>>)),
                     Some(ToHex(TooLong))}}
    \cup {FrameBody(Some(PyInt(0)), Some(ToHex(Slice(MapV1, 0))), "own", sum) :
            sum \in {Some(md5(Slice(MapV1, 0))), Some(NotADigest)}}

\* The session id the client was given (1 before any session exists).
ClientSessionId ==
    IF current_transfer = None THEN 1 ELSE Get(current_transfer).session_id

\* The chunk_data dictionary receive_chunk is called with.  A session_id of
\* Some(0) stands for the empty string.
ChunkData(body) ==
    [chunk_index |-> body.chunk_index,
     data |-> body.data,
     session_id |-> CASE body.sid = "own" -> Some(ClientSessionId)
                      [] body.sid = "other" -> Some(ClientSessionId + 1)
                      [] body.sid = "empty" -> Some(0)
                      [] OTHER -> None,
     checksum |-> body.checksum]

\* Faulty variant: the last chunk's length without the fallback to chunk_size.
GetExpectedChunkSizeNoFallback(s, chunk_index) ==
    IF chunk_index = s.total_chunks - 1
    THEN (IF s.is_compressed THEN s.compressed_size ELSE s.file_size) % chunk_size
    ELSE chunk_size

\* _get_expected_chunk_size
GetExpectedChunkSize(s, chunk_index) ==
    LET effective_size == IF s.is_compressed THEN s.compressed_size ELSE s.file_size
        remaining == effective_size % chunk_size
    IN  IF chunk_index = s.total_chunks - 1
        THEN (IF remaining > 0 THEN remaining ELSE chunk_size)
        ELSE chunk_size

\* The exception receive_chunk raises in steps 3 to 7 ("" when it raises none).
ChunkError(s, chunk_data) ==
    IF chunk_data.chunk_index = None \/ chunk_data.data = None
        THEN "Missing chunk_index or data"
    ELSE IF /\ chunk_data.session_id # None
            /\ Get(chunk_data.session_id) # 0
            /\ Get(chunk_data.session_id) # s.session_id
        THEN "Session ID mismatch"
    ELSE IF Get(chunk_data.chunk_index).t # "int" \/ Get(chunk_data.chunk_index).v < 0
        THEN "Invalid chunk_index"
    ELSE IF Get(chunk_data.chunk_index).v >= s.total_chunks
        THEN "Chunk index exceeds total"
    ELSE IF ~HexOk(Get(chunk_data.data))
        THEN "Invalid hex data in chunk"
    ELSE IF Len(FromHex(Get(chunk_data.data)))
                # GetExpectedChunkSize(s, Get(chunk_data.chunk_index).v)
        THEN "Chunk size mismatch"
    ELSE IF /\ chunk_data.checksum # None
            /\ Get(chunk_data.checksum) # md5(FromHex(Get(chunk_data.data)))
        THEN "Chunk checksum mismatch"
    ELSE ""

\* Faulty variant: the chunk is stored but its index stays in missing_chunks.
StoreReceivedKeepMissing(s, chunk_index, chunk_bytes) ==
    LET received == [i \in (DOMAIN s.received_chunks) \cup {chunk_index} |->
                        IF i = chunk_index THEN chunk_bytes ELSE s.received_chunks[i]]
    IN  [s EXCEPT !.received_chunks = received,
                  !.chunks_received = Cardinality(DOMAIN received),
                  !.last_activity = now,
                  !.state = "receiving_chunks"]

\* Step 9: the session with the chunk stored.
StoreReceived(s, chunk_index, chunk_bytes) ==
    LET received == [i \in (DOMAIN s.received_chunks) \cup {chunk_index} |->
                        IF i = chunk_index THEN chunk_bytes ELSE s.received_chunks[i]]
    IN  [s EXCEPT !.received_chunks = received,
                  !.missing_chunks = s.missing_chunks \ {chunk_index},
                  !.chunks_received = Cardinality(DOMAIN received),
                  !.last_activity = now,
                  !.state = "receiving_chunks"]

\* Faulty variant: every chunk is counted as a full chunk.
UpdateMetricsFullChunk(s, chunk_bytes) ==
    [s EXCEPT !.metrics.chunks_transferred = s.metrics.chunks_transferred + 1,
              !.metrics.bytes_transferred = s.metrics.bytes_transferred + chunk_size]

\* Step 10: the metrics after a stored chunk.
UpdateMetrics(s, chunk_bytes) ==
    [s EXCEPT !.metrics.chunks_transferred = s.metrics.chunks_transferred + 1,
              !.metrics.bytes_transferred = s.metrics.bytes_transferred + Len(chunk_bytes)]

\* Faulty variant: a duplicate overwrites the stored bytes.
OnDuplicateOverwrite(s, chunk_index, chunk_bytes) ==
    [s EXCEPT !.received_chunks[chunk_index] = chunk_bytes]

\* Step 8: what a duplicate chunk does to the session (nothing).
OnDuplicate(s, chunk_index, chunk_bytes) == s

\* b''.join of the chunks in index order
RECURSIVE JoinChunks(_, _)
JoinChunks(received, indices) ==
    IF indices = {} THEN <<>>
    ELSE received[SetMin(indices)] \o JoinChunks(received, indices \ {SetMin(indices)})

\* _reconstruct_file: the exception it raises, and the bytes it returns
ReconstructError(s) ==
    IF (0..(s.total_chunks - 1)) \ (DOMAIN s.received_chunks) # {}
        THEN "Missing chunks"
    ELSE IF Len(JoinChunks(s.received_chunks, DOMAIN s.received_chunks))
                # (IF s.is_compressed THEN s.compressed_size ELSE s.file_size)
        THEN "File size mismatch"
    ELSE ""
ReconstructFile(s) == JoinChunks(s.received_chunks, DOMAIN s.received_chunks)

\* _decompress_data: the exception it raises ("" when none)
DecompressError(compressed_data, compression_type) ==
    IF compression_type = "gzip"
        THEN (IF GzipOk(compressed_data) THEN "" ELSE "Not a gzipped file")
    ELSE IF compression_type = "none" THEN ""
    ELSE "Unsupported compression type"
DecompressData(compressed_data, compression_type) ==
    IF compression_type = "gzip" THEN gzip_decompress(compressed_data) ELSE compressed_data

\* Faulty variant: the hash comparison always succeeds.
HashMatchesAlways(calculated_hash, expected_hash) == TRUE

\* The comparison of a computed digest with the expected one (steps 2 and 3).
HashMatches(calculated_hash, expected_hash) == calculated_hash = expected_hash

\* Steps 1 to 4 of _complete_transfer: the states the session passes through, the
\* exception raised ("" when none), the wire hash computed and the bytes to install.
Pipeline(s) ==
    LET wire == ReconstructFile(s)
        calculated_hash == sha256(wire)
        expected_hash == IF s.is_compressed THEN s.compressed_hash ELSE s.file_hash
        file_data == IF s.is_compressed THEN DecompressData(wire, s.compression_type) ELSE wire
        Out(trace, msg) == [trace |-> trace, message |-> msg,
                            calculated_hash |-> calculated_hash, file_data |-> file_data]
    IN  IF ReconstructError(s) # "" THEN Out(<<"validating">>, ReconstructError(s))
        ELSE IF ~HashMatches(calculated_hash, expected_hash)
            THEN Out(<<"validating">>, "Hash mismatch")
        ELSE IF s.is_compressed /\ DecompressError(wire, s.compression_type) # ""
            THEN Out(<<"validating", "decompressing">>, DecompressError(wire, s.compression_type))
        ELSE IF s.is_compressed /\ ~HashMatches(sha256(file_data), s.file_hash)
            THEN Out(<<"validating", "decompressing">>, "Decompressed hash mismatch")
        ELSE IF ParseJSON(file_data).kind = "not_json"
            THEN Out(IF s.is_compressed THEN <<"validating", "decompressing">>
                     ELSE <<"validating">>, "Invalid JSON structure")
        ELSE IF ~ValidMapStructure(file_data)
            THEN Out(IF s.is_compressed THEN <<"validating", "decompressing">>
                     ELSE <<"validating">>, "Missing required field in map")
        ELSE Out(IF s.is_compressed THEN <<"validating", "decompressing">>
                 ELSE <<"validating">>, "")

\* The points at which the file operations of steps 5 and 6 may raise OSError.
IOFaults == {"none", "copy", "symlink", "write", "replace"}

\* Path.exists() on the backup_map symlink follows the link.
BackupMapExists == backup_map # None /\ \E b \in backup_dir : b.name = Get(backup_map)

\* _backup_current_map: shutil.copy2 to backup_map_<timestamp>.json, then the
\* symlink is replaced.  Returns the directory, the link and the exception raised.
BackupCurrentMap(fault) ==
    LET copied == {b \in backup_dir : b.name # now}
                  \cup {[name |-> now, data |-> Get(active_map)]}
        Out(dir, link, msg) == [backup_dir |-> dir, backup_map |-> link, message |-> msg]
    IN  IF active_map = None THEN Out(backup_dir, backup_map, "")
        ELSE IF fault = "copy" THEN Out(backup_dir, backup_map, "OSError")
        ELSE IF fault = "symlink" THEN Out(copied, IF BackupMapExists THEN None ELSE backup_map,
                                           "OSError")
        ELSE IF backup_map # None /\ ~BackupMapExists THEN Out(copied, backup_map, "FileExistsError")
        ELSE Out(copied, Some(now), "")

\* Faulty variant: the new map is written straight to active_map_path, so a write that
\* fails part-way leaves the part written.
ActiveAfterCommitInPlace(fault, message, file_data) ==
    IF message = "" THEN Some(file_data)
    ELSE IF fault = "write" /\ message = "OSError" THEN Some(SubSeq(file_data, 1, 1))
    ELSE active_map

\* Step 6: the contents of active_map_path after the write to the staging file
\* and the rename over active_map_path.
ActiveAfterCommit(fault, message, file_data) ==
    IF message = "" THEN Some(file_data) ELSE active_map

\* Faulty variant: the session is marked but not dropped.
CleanupTransferKeepSession(s) == Some(s)

\* _cleanup_transfer: current_transfer once the session s has been cleaned up
\* (no file in temp_dir carries a session id, so the glob removes nothing).
CleanupTransfer(s) == None

\* get_transfer_status()["status"]
GetTransferStatus ==
    IF current_transfer = None THEN "idle" ELSE Get(current_transfer).state

\* Faulty variant: the current map is backed up before the new one is validated.
BackupReachedAlways(p) == TRUE

\* Step 5 of _complete_transfer is reached only when steps 1 to 4 raised nothing.
BackupReached(p) == p.message = ""

\* _complete_transfer and _cleanup_transfer, for the session s that has just
\* stored its last chunk.
CompleteTransfer(s, fault) ==
    LET p == Pipeline(s)
        b == BackupCurrentMap(fault)
        message == IF p.message # "" THEN p.message
                   ELSE IF b.message # "" THEN b.message
                   ELSE IF fault \in {"write", "replace"} THEN "OSError"
                   ELSE ""
    IN  /\ backup_dir' = IF BackupReached(p) THEN b.backup_dir ELSE backup_dir
        /\ backup_map' = IF BackupReached(p) THEN b.backup_map ELSE backup_map
        /\ temp_map' = None
        /\ active_map' = ActiveAfterCommit(fault, message, p.file_data)
        /\ current_transfer' = CleanupTransfer(s)
        /\ active_at_start' = None
        /\ ended' = Some([session |-> [s EXCEPT !.state = IF message = "" THEN "completed"
                                                            ELSE "failed"],
                          trace |-> p.trace,
                          message |-> message,
                          active_before |-> active_at_start])
        /\ result' = IF message = ""
                     THEN [NoResult EXCEPT !.status = "completed",
                              !.session_id = s.session_id,
                              !.file_hash = p.calculated_hash,
                              !.file_size = s.file_size,
                              !.new_version = Get(s.metadata.version).v]
                     ELSE ErrorResult("TRANSFER_VALIDATION_FAILED", message)

\* Faulty variant: a paused session still takes chunks.
AcceptsChunksWhilePaused(s) ==
    s.state \in {"metadata_received", "receiving_chunks", "paused"}

\* Step 1: the states in which receive_chunk goes on to process the chunk.
AcceptsChunks(s) == s.state \in {"metadata_received", "receiving_chunks"}

\* Faulty variant: a rejected chunk fails the session.
RejectChunkFailSession(s) ==
    [s EXCEPT !.metrics.retries = s.metrics.retries + 1, !.state = "failed"]

\* The exception handler of receive_chunk: the session after a rejected chunk.
RejectChunk(s) == [s EXCEPT !.metrics.retries = s.metrics.retries + 1]

\* Faulty variant: the transfer is taken to be complete once the chunk with the
\* highest index is stored.
TransferCompleteAtLastIndex(s) == (s.total_chunks - 1) \in DOMAIN s.received_chunks

\* Step 13: the test that every chunk has been received.
TransferComplete(s) == s.chunks_received >= s.total_chunks

ReceiveChunk(chunk_data) ==
    /\ call' = Call("receive_chunk", None, Some(chunk_data))
    /\ UNCHANGED <<next_session, required_signature, now, commit_pc, observed>>
    /\ IF current_transfer = None
       THEN /\ result' = ErrorResult("NO_ACTIVE_TRANSFER", "")
            /\ ended' = None
            /\ UNCHANGED <<current_transfer, active_map, temp_map, backup_dir, backup_map,
                           last_chunk_time, active_at_start>>
       ELSE IF ~AcceptsChunks(Get(current_transfer))
       THEN /\ result' = ErrorResult("INVALID_STATE", "")
            /\ ended' = None
            /\ UNCHANGED <<current_transfer, active_map, temp_map, backup_dir, backup_map,
                           last_chunk_time, active_at_start>>
       ELSE LET s == Get(current_transfer)
                msg == ChunkError(s, chunk_data)
                chunk_index == Get(chunk_data.chunk_index).v
                chunk_bytes == FromHex(Get(chunk_data.data))
                stored == UpdateMetrics(StoreReceived(s, chunk_index, chunk_bytes), chunk_bytes)
            IN  /\ last_chunk_time' = now
                /\ IF msg # ""
                   THEN /\ s.metrics.retries < MaxRetries
                        /\ current_transfer' = Some(RejectChunk(s))
                        /\ result' = ErrorResult("CHUNK_PROCESSING_FAILED", msg)
                        /\ ended' = None
                        /\ UNCHANGED <<active_map, temp_map, backup_dir, backup_map,
                                       active_at_start>>
                   ELSE IF chunk_index \in DOMAIN s.received_chunks
                   THEN /\ result' = [NoResult EXCEPT !.status = "duplicate", !.chunk_index = chunk_index]
                        /\ ended' = None
                        /\ current_transfer' = Some(OnDuplicate(s, chunk_index, chunk_bytes))
                        /\ UNCHANGED <<active_map, temp_map, backup_dir, backup_map,
                                       active_at_start>>
                   ELSE IF TransferComplete(stored)
                   THEN \E fault \in IOFaults : CompleteTransfer(stored, fault)
                   ELSE /\ current_transfer' = Some(stored)
                        /\ result' = [NoResult EXCEPT !.status = "chunk_received",
                                         !.chunk_index = chunk_index,
                                         !.chunks_received = stored.chunks_received,
                                         !.total_chunks = stored.total_chunks,
                                         !.missing_chunks = Sorted(stored.missing_chunks)]
                        /\ ended' = None
                        /\ UNCHANGED <<active_map, temp_map, backup_dir, backup_map,
                                       active_at_start>>

\* ------------------------------------- steps 5 and 6, one file operation at a time
\* The file operations of steps 5 and 6 in the order _complete_transfer and
\* _backup_current_map perform them.
BeforeReplace == {"copy", "unlink", "symlink", "open", "write", "replace"}

\* The bytes _complete_transfer is installing for the session s.
CommitData(s) == Pipeline(s).file_data

\* The receive_chunk call that stores the last chunk, up to the end of step 4
\* when steps 1 to 4 raise nothing.
BeginCommit(chunk_data) ==
    /\ commit_pc = "idle"
    /\ current_transfer # None
    /\ AcceptsChunks(Get(current_transfer))
    /\ ChunkError(Get(current_transfer), chunk_data) = ""
    /\ Get(chunk_data.chunk_index).v \notin DOMAIN Get(current_transfer).received_chunks
    /\ LET s == Get(current_transfer)
           chunk_index == Get(chunk_data.chunk_index).v
           chunk_bytes == FromHex(Get(chunk_data.data))
           stored == UpdateMetrics(StoreReceived(s, chunk_index, chunk_bytes), chunk_bytes)
           p == Pipeline(stored)
       IN  /\ TransferComplete(stored)
           /\ p.message = ""
           /\ current_transfer' = Some([stored EXCEPT !.state = p.trace[Len(p.trace)]])
    /\ call' = Call("receive_chunk", None, Some(chunk_data))
    /\ last_chunk_time' = now
    /\ ended' = None
    /\ commit_pc' = "copy"
    /\ UNCHANGED <<next_session, required_signature, active_map, temp_map, backup_dir,
                   backup_map, result, active_at_start, observed, now>>

\* Faulty variant: a backup file of the same second is kept as it is.
CommitCopyKeepExisting ==
    /\ commit_pc = "copy"
    /\ IF active_map = None
       THEN commit_pc' = "open" /\ UNCHANGED backup_dir
       ELSE /\ backup_dir' = IF \E b \in backup_dir : b.name = now THEN backup_dir
                              ELSE backup_dir \cup {[name |-> now, data |-> Get(active_map)]}
            /\ commit_pc' = "unlink"
    /\ UNCHANGED <<current_transfer, next_session, required_signature, active_map, temp_map,
                   backup_map, last_chunk_time, call, result, ended, active_at_start,
                   observed, now>>

\* shutil.copy2 of the current map to backup_map_<timestamp>.json, when there is one.
CommitCopy ==
    /\ commit_pc = "copy"
    /\ IF active_map = None
       THEN commit_pc' = "open" /\ UNCHANGED backup_dir
       ELSE /\ backup_dir' = {b \in backup_dir : b.name # now}
                                \cup {[name |-> now, data |-> Get(active_map)]}
            /\ commit_pc' = "unlink"
    /\ UNCHANGED <<current_transfer, next_session, required_signature, active_map, temp_map,
                   backup_map, last_chunk_time, call, result, ended, active_at_start,
                   observed, now>>

\* backup_map_path.unlink() when exists() finds the link's target.
CommitUnlink ==
    /\ commit_pc = "unlink"
    /\ backup_map' = IF BackupMapExists THEN None ELSE backup_map
    /\ commit_pc' = "symlink"
    /\ UNCHANGED <<current_transfer, next_session, required_signature, active_map, temp_map,
                   backup_dir, last_chunk_time, call, result, ended, active_at_start,
                   observed, now>>

\* The handler of _complete_transfer: the staging file is removed, the session
\* is marked failed and cleaned up.
CommitFailed(message) ==
    /\ temp_map' = None
    /\ current_transfer' = CleanupTransfer([Get(current_transfer) EXCEPT !.state = "failed"])
    /\ active_at_start' = None
    /\ ended' = Some([session |-> [Get(current_transfer) EXCEPT !.state = "failed"],
                      trace |-> <<>>,
                      message |-> message,
                      active_before |-> active_at_start])
    /\ result' = ErrorResult("TRANSFER_VALIDATION_FAILED", message)
    /\ commit_pc' = "idle"

\* backup_map_path.symlink_to(backup_filename): FileExistsError over a link
\* that is still there.
CommitSymlink ==
    /\ commit_pc = "symlink"
    /\ IF backup_map # None
       THEN CommitFailed("FileExistsError") /\ UNCHANGED backup_map
       ELSE /\ backup_map' = Some(now)
            /\ commit_pc' = "open"
            /\ UNCHANGED <<current_transfer, temp_map, result, ended, active_at_start>>
    /\ UNCHANGED <<next_session, required_signature, active_map, backup_dir,
                   last_chunk_time, call, observed, now>>

\* open(temp_map_path, 'wb') creates the staging file or truncates it.
CommitOpen ==
    /\ commit_pc = "open"
    /\ temp_map' = Some(<<>>)
    /\ commit_pc' = "write"
    /\ UNCHANGED <<current_transfer, next_session, required_signature, active_map,
                   backup_dir, backup_map, last_chunk_time, call, result, ended,
                   active_at_start, observed, now>>

\* Faulty variant: the bytes are written to active_map_path itself.
WriteStepInPlace(temp, active, file_data) ==
    [temp_map |-> Some(SubSeq(file_data, 1, Len(Get(temp)) + 1)),
     active_map |-> Some(SubSeq(file_data, 1, Len(Get(temp)) + 1))]

\* f.write(file_data) reaches the staging file one byte at a time.
WriteStep(temp, active, file_data) ==
    [temp_map |-> Some(SubSeq(file_data, 1, Len(Get(temp)) + 1)),
     active_map |-> active]

\* Faulty variant: the result is prepared once the staging file is written.
AfterWriteSkipReplace == "finish"

\* The operation that follows the with block: the rename.
AfterWrite == "replace"

\* One more byte of f.write(file_data); the file is closed after the last one.
CommitWrite ==
    /\ commit_pc = "write"
    /\ LET file_data == CommitData(Get(current_transfer))
           w == WriteStep(temp_map, active_map, file_data)
       IN  /\ temp_map' = w.temp_map
           /\ active_map' = w.active_map
           /\ commit_pc' = IF Get(w.temp_map) = file_data THEN AfterWrite ELSE "write"
    /\ UNCHANGED <<current_transfer, next_session, required_signature, backup_dir,
                   backup_map, last_chunk_time, call, result, ended, active_at_start,
                   observed, now>>

\* temp_map_path.replace(active_map_path): one rename.
CommitReplace ==
    /\ commit_pc = "replace"
    /\ active_map' = temp_map
    /\ temp_map' = None
    /\ commit_pc' = "finish"
    /\ UNCHANGED <<current_transfer, next_session, required_signature, backup_dir,
                   backup_map, last_chunk_time, call, result, ended, active_at_start,
                   observed, now>>

\* Steps 7 to 9: the session is completed and cleaned up, the result returned.
CommitFinish ==
    /\ commit_pc = "finish"
    /\ LET s == Get(current_transfer)
       IN  /\ current_transfer' = CleanupTransfer([s EXCEPT !.state = "completed"])
           /\ ended' = Some([session |-> [s EXCEPT !.state = "completed"],
                             trace |-> Pipeline(s).trace,
                             message |-> "",
                             active_before |-> active_at_start])
           /\ result' = [NoResult EXCEPT !.status = "completed",
                            !.session_id = s.session_id,
                            !.file_hash = Pipeline(s).calculated_hash,
                            !.file_size = s.file_size,
                            !.new_version = Get(s.metadata.version).v]
    /\ active_at_start' = None
    /\ commit_pc' = "idle"
    /\ UNCHANGED <<next_session, required_signature, active_map, temp_map, backup_dir,
                   backup_map, last_chunk_time, call, observed, now>>

\* The file operation about to run raises OSError.
CommitFault ==
    /\ commit_pc \in BeforeReplace
    /\ CommitFailed("OSError")
    /\ UNCHANGED <<next_session, required_signature, active_map, backup_dir, backup_map,
                   last_chunk_time, call, observed, now>>

\* The process dies inside steps 5 to 7: its memory is gone, the files stay.
Crash ==
    /\ commit_pc \in BeforeReplace \cup {"finish"}
    /\ current_transfer' = None
    /\ active_at_start' = None
    /\ ended' = Some([session |-> Get(current_transfer),
                      trace |-> <<>>,
                      message |-> IF commit_pc \in BeforeReplace THEN "crash before replace"
                                  ELSE "crash after replace",
                      active_before |-> active_at_start])
    /\ commit_pc' = "crashed"
    /\ UNCHANGED <<next_session, required_signature, active_map, temp_map, backup_dir,
                   backup_map, last_chunk_time, call, result, observed, now>>

\* The program is started again over the same storage directory.
Restart ==
    /\ commit_pc = "crashed"
    /\ commit_pc' = "idle"
    /\ UNCHANGED <<current_transfer, next_session, required_signature, active_map, temp_map,
                   backup_dir, backup_map, last_chunk_time, call, result, ended,
                   active_at_start, observed, now>>

\* Another process opens active_map_path and reads the file it finds.
ReadActiveMap ==
    /\ observed' = active_map
    /\ UNCHANGED <<current_transfer, next_session, required_signature, active_map, temp_map,
                   backup_dir, backup_map, last_chunk_time, call, result, ended,
                   active_at_start, commit_pc, now>>

\* ---------------------------------------------------- pause, resume, cancel
\* Faulty variant: a session that has stored no chunk yet may be paused too.
CanPauseBeforeChunks(s) == s.state \in {"metadata_received", "receiving_chunks"}

\* pause_transfer's state check
CanPause(s) == s.state = "receiving_chunks"

\* resume_transfer's state check
CanResume(s) == s.state = "paused"

PauseTransfer ==
    /\ call' = Call("pause_transfer", None, None)
    /\ IF current_transfer = None
       THEN /\ result' = [ErrorResult("", "No active transfer to pause")
                             EXCEPT !.session_id = 0]
            /\ UNCHANGED current_transfer
       ELSE IF ~CanPause(Get(current_transfer))
       THEN /\ result' = ErrorResult("", "Cannot pause transfer in state")
            /\ UNCHANGED current_transfer
       ELSE /\ current_transfer' = Some([Get(current_transfer) EXCEPT !.state = "paused"])
            /\ result' = [NoResult EXCEPT !.status = "paused",
                             !.session_id = Get(current_transfer).session_id,
                             !.chunks_received = Get(current_transfer).chunks_received]
    /\ ended' = None
    /\ UNCHANGED <<next_session, required_signature, active_map, temp_map, backup_dir,
                   backup_map, now, last_chunk_time, active_at_start, commit_pc, observed>>

\* Faulty variant: every index is reported missing.
MissingChunksListAll(s) == Sorted(0..(s.total_chunks - 1))

\* sorted(list(self.current_transfer.missing_chunks))
MissingChunksList(s) == Sorted(s.missing_chunks)

ResumeTransfer ==
    /\ call' = Call("resume_transfer", None, None)
    /\ IF current_transfer = None
       THEN /\ result' = ErrorResult("", "No transfer to resume")
            /\ UNCHANGED current_transfer
       ELSE IF ~CanResume(Get(current_transfer))
       THEN /\ result' = ErrorResult("", "Cannot resume transfer in state")
            /\ UNCHANGED current_transfer
       ELSE /\ current_transfer' = Some([Get(current_transfer) EXCEPT !.state = "resuming",
                                                                      !.last_activity = now])
            /\ result' = [NoResult EXCEPT !.status = "resuming",
                             !.session_id = Get(current_transfer).session_id,
                             !.missing_chunks = MissingChunksList(Get(current_transfer)),
                             !.chunks_received = Get(current_transfer).chunks_received,
                             !.total_chunks = Get(current_transfer).total_chunks]
    /\ ended' = None
    /\ UNCHANGED <<next_session, required_signature, active_map, temp_map, backup_dir,
                   backup_map, now, last_chunk_time, active_at_start, commit_pc, observed>>

\* cancel_transfer and _cleanup_transfer
CancelTransfer ==
    /\ call' = Call("cancel_transfer", None, None)
    /\ IF current_transfer = None
       THEN /\ result' = ErrorResult("", "No active transfer to cancel")
            /\ ended' = None
            /\ UNCHANGED <<current_transfer, active_at_start>>
       ELSE /\ current_transfer' = CleanupTransfer([Get(current_transfer)
                                                       EXCEPT !.state = "cancelled"])
            /\ active_at_start' = None
            /\ ended' = Some([session |-> [Get(current_transfer) EXCEPT !.state = "cancelled"],
                              trace |-> <<>>,
                              message |-> "",
                              active_before |-> active_at_start])
            /\ result' = [NoResult EXCEPT !.status = "cancelled",
                             !.session_id = Get(current_transfer).session_id]
    /\ UNCHANGED <<next_session, required_signature, active_map, temp_map, backup_dir,
                   backup_map, now, last_chunk_time, commit_pc, observed>>

\* ------------------------------------------------- AuthenticationManager
\* self.auth_timeout, scaled down from 60 seconds
auth_timeout == 1
\* self.max_attempts, scaled down from 3
max_attempts == 2
\* the lifetime of an authenticated session in is_authenticated, scaled down
\* from 3600 seconds
session_lifetime == 2
\* the last second of a run
MaxTime == 3
\* number of challenges one run may draw
MaxChallenges == 2

\* The client ids the authentication manager is called with, and the client
\* objects the transport reports to the server.
Clients == {1}
\* The client ids self.sessions may hold a session for.
ClientIds == {1, 2}
Devices == {1, 2}

\* _generate_demo_signature and the value _verify_signature compares with:
\* sha256 of "challenge:client_id:device_id"
DemoSignature(challenge, client_id) == sha256(<<challenge, client_id>>)

\* _verify_signature
VerifySignature(challenge, signature, client_id) ==
    signature = DemoSignature(challenge, client_id)

\* _generate_session_id: md5 of "client_id:device_id:int(time.time())"
GenerateSessionId(client_id) == md5(<<client_id, now>>)

\* The response_data dictionaries a client may send: one without fields (which
\* also stands for a string), one without a signature, one without a challenge,
\* and for each challenge the responses whose signature is empty, not a digest,
\* or the digest expected for that challenge and client.
EmptySignature == <<>>
ResponseData(client_id) ==
    {[challenge |-> None, signature |-> None],
     [challenge |-> Some(1), signature |-> None],
     [challenge |-> None, signature |-> Some(DemoSignature(1, client_id))]}
    \cup {[challenge |-> Some(n), signature |-> Some(sig)] :
            n \in 1..MaxChallenges,
            sig \in {EmptySignature, NotADigest}}
    \cup {[challenge |-> Some(n), signature |-> Some(DemoSignature(n, client_id))] :
            n \in 1..MaxChallenges}

\* A client can only send back a challenge that has been drawn: the latest one
\* or the one before it.
SentResponseData(client_id) ==
    {r \in ResponseData(client_id) :
        r.challenge = None
        \/ (Get(r.challenge) <= next_challenge /\ Get(r.challenge) >= next_challenge - 1)}

NoAuthResult ==
    [status |-> "none", error_code |-> "", challenge |-> 0, session_id |-> None,
     value |-> FALSE]

AuthError(code) == [NoAuthResult EXCEPT !.status = "error", !.error_code = code]

AuthCall(op, client_id, response_data) ==
    [op |-> op, client_id |-> client_id, response_data |-> response_data]

\* _cleanup_expired_sessions: the sessions that remain
CleanupExpiredSessions ==
    [c \in ClientIds |->
        IF sessions[c] # None /\ now - Get(sessions[c]).challenge_time > auth_timeout * 2
        THEN None ELSE sessions[c]]

\* generate_challenge's test of the attempts counter
AttemptsExhausted(session) == session.attempts >= max_attempts

GenerateChallenge(client_id) ==
    LET kept == CleanupExpiredSessions IN
    /\ auth_call' = AuthCall("generate_challenge", client_id, None)
    /\ IF kept[client_id] # None /\ Get(kept[client_id]).state = "authenticated"
       THEN /\ auth_result' = [NoAuthResult EXCEPT !.status = "already_authenticated"]
            /\ sessions' = kept
            /\ UNCHANGED next_challenge
       ELSE IF kept[client_id] # None /\ AttemptsExhausted(Get(kept[client_id]))
       THEN /\ auth_result' = [NoAuthResult EXCEPT !.status = "max_attempts_exceeded"]
            /\ sessions' = kept
            /\ UNCHANGED next_challenge
       ELSE /\ next_challenge < MaxChallenges
            /\ next_challenge' = next_challenge + 1
            /\ sessions' = [kept EXCEPT ![client_id] =
                               Some([device_id |-> client_id,
                                     challenge |-> next_challenge + 1,
                                     challenge_time |-> now,
                                     state |-> "challenge_sent",
                                     attempts |-> 0,
                                     client_info |-> None])]
            /\ auth_result' = [NoAuthResult EXCEPT !.status = "challenge_generated",
                                                   !.challenge = next_challenge + 1]
    /\ UNCHANGED <<signature_enabled, verified, failures, issued>>

\* Faulty variant: a failed verification leaves the challenge outstanding.
FailSessionKeepChallenge(session) == session

\* session.state = AuthState.FAILED
FailSession(session) == [session EXCEPT !.state = "failed"]

\* Faulty variant: a response at exactly the window is already too late.
ChallengeExpiredAtWindow(session) == now - session.challenge_time >= auth_timeout

\* verify_challenge_response's timeout check
ChallengeExpired(session) == now - session.challenge_time > auth_timeout

\* The error code verify_challenge_response returns for a session that has an
\* outstanding challenge ("" when it authenticates).
VerifyError(session, client_id, response_data) ==
    IF ChallengeExpired(session) THEN "CHALLENGE_EXPIRED"
    ELSE IF response_data.challenge = None \/ response_data.signature = None
        THEN "INVALID_RESPONSE_FORMAT"
    ELSE IF Get(response_data.challenge) # session.challenge
        THEN "CHALLENGE_MISMATCH"
    ELSE IF signature_enabled
            /\ ~VerifySignature(session.challenge, Get(response_data.signature), client_id)
        THEN "INVALID_SIGNATURE"
    ELSE ""

VerifyChallengeResponse(client_id, response_data) ==
    /\ auth_call' = AuthCall("verify_challenge_response", client_id, Some(response_data))
    /\ IF sessions[client_id] = None
       THEN /\ auth_result' = AuthError("NO_ACTIVE_CHALLENGE")
            /\ UNCHANGED <<sessions, verified, failures, issued>>
       ELSE LET session == Get(sessions[client_id])
                counted == [session EXCEPT !.attempts = session.attempts + 1]
                code == IF session.state # "challenge_sent" THEN "INVALID_STATE"
                        ELSE VerifyError(session, client_id, response_data)
            IN  /\ session.attempts <= max_attempts
                /\ verified' = verified \cup {session.challenge}
                /\ IF code = ""
                   THEN /\ sessions' = [sessions EXCEPT ![client_id] =
                                           Some([counted EXCEPT !.state = "authenticated",
                                                                !.client_info = Some(0)])]
                        /\ auth_result' = [NoAuthResult EXCEPT
                                              !.status = "authenticated",
                                              !.session_id = Some(GenerateSessionId(client_id))]
                        /\ issued' = issued \cup {GenerateSessionId(client_id)}
                        /\ UNCHANGED failures
                   ELSE /\ sessions' = [sessions EXCEPT ![client_id] =
                                           Some(IF code = "CHALLENGE_EXPIRED"
                                                THEN [counted EXCEPT !.state = "expired"]
                                                ELSE FailSession(counted))]
                        /\ auth_result' = AuthError(code)
                        /\ failures' = [failures EXCEPT ![client_id] =
                                           Min(failures[client_id] + 1, max_attempts + 1)]
                        /\ UNCHANGED issued
    /\ UNCHANGED <<signature_enabled, next_challenge>>

\* is_authenticated's timeout check
SessionExpired(session) == now - session.challenge_time > session_lifetime

\* The value is_authenticated returns
IsAuthenticated(client_id) ==
    /\ sessions[client_id] # None
    /\ Get(sessions[client_id]).state = "authenticated"
    /\ ~SessionExpired(Get(sessions[client_id]))

\* A call of is_authenticated, which marks an over-age session expired
IsAuthenticatedCall(client_id) ==
    /\ auth_call' = AuthCall("is_authenticated", client_id, None)
    /\ auth_result' = [NoAuthResult EXCEPT !.status = "returned",
                                           !.value = IsAuthenticated(client_id)]
    /\ sessions' = IF /\ sessions[client_id] # None
                      /\ Get(sessions[client_id]).state = "authenticated"
                      /\ SessionExpired(Get(sessions[client_id]))
                   THEN [sessions EXCEPT ![client_id] =
                            Some([Get(sessions[client_id]) EXCEPT !.state = "expired"])]
                   ELSE sessions
    /\ UNCHANGED <<signature_enabled, next_challenge, verified, failures, issued>>

\* invalidate_session
InvalidateSession(client_id) ==
    /\ auth_call' = AuthCall("invalidate_session", client_id, None)
    /\ auth_result' = [NoAuthResult EXCEPT !.status = "returned"]
    /\ sessions' = IF sessions[client_id] = None THEN sessions
                   ELSE [sessions EXCEPT ![client_id] = Some(FailSession(Get(sessions[client_id])))]
    /\ UNCHANGED <<signature_enabled, next_challenge, verified, failures, issued>>

\* configure: security.required_signature of the configuration it is given.
\* The manager is configured, if at all, before it draws its first challenge.
Configure(required) ==
    /\ next_challenge = 0
    /\ auth_call' = AuthCall("configure", 0, None)
    /\ auth_result' = [NoAuthResult EXCEPT !.status = "returned"]
    /\ signature_enabled' = required
    /\ UNCHANGED <<sessions, next_challenge, verified, failures, issued>>

\* One second passes.
Tick ==
    /\ now < MaxTime
    /\ now' = now + 1

\* ----------------------------------------------------------- BLEMapServer
\* A message written to the auth or the map_data characteristic, after
\* json.loads.  response_data is None when it is a dictionary (or absent) and
\* Some(id) when it is a string; signature is the value of "signature" when it
\* is a dictionary, and a dictionary without fields stands for a string.
Message(type, metadata, chunk, command, response_data, signature) ==
    [type |-> type, metadata |-> metadata, chunk |-> chunk, command |-> command,
     response_data |-> response_data, signature |-> signature]

NoMessage == Message("none", None, None, "", None, None)

\* The record of a callback: its name, the client object it was given and the
\* type of the message written.
ServerCall(op, client, message) == [op |-> op, client |-> client, type |-> message.type]

\* What metadata.get / chunk_data.get find in an empty dictionary.
EmptyMetadata ==
    [file_size |-> None, file_hash |-> None, version |-> None, signature |-> None,
     compression |-> None, compressed_size |-> None, compressed_hash |-> None]
EmptyFrame == FrameBody(None, None, "absent", None)

AuthMessages ==
    {Message(t, None, None, "", None, None) :
        t \in {"challenge_request", "mutual_auth", "unknown"}}
    \cup {Message("challenge_response", None, None, "", None, None)}
    \cup UNION {{Message("challenge_response", None, None, "", Some(c), Some(r)) :
                    r \in {x \in ResponseData(c) :
                              x.signature = None \/ Get(x.signature) \notin
                                                     {EmptySignature, NotADigest}}}
                 : c \in Clients}

DataMessages ==
    {Message("transfer_init", Some(m), None, "", None, None) :
        m \in {HonestMetadata(MapV2, "none", 2), HonestMetadata(MapV1, "none", 1),
               EmptyMetadata}}
    \cup {Message("chunk_data", None, Some(b), "", None, None) :
            b \in {FrameBody(Some(PyInt(0)), Some(ToHex(Slice(MapV2, 0))), "own", None),
                   FrameBody(Some(PyInt(0)), Some(ToHex(Slice(MapV1, 0))), "own", None),
                   EmptyFrame}}
    \cup {Message("transfer_control", None, None, c, None, None) :
            c \in {"pause", "resume", "cancel", "status", "unknown"}}
    \cup {Message("unknown", None, None, "", None, None)}

AuthErrorMessage(error) == [type |-> "auth_error", error |-> error, session_id |-> None]
Status(status, error) == [status |-> status, error |-> error]
NoStatus == Status("none", "")

\* The status dictionary of a transfer manager result.
StatusOf(r) == Status(r.status, IF r.error_code # "" THEN r.error_code ELSE r.message)

\* The first four assignments of _cleanup_connection.
ResetConnection ==
    /\ current_client' = None
    /\ connection_active' = FALSE
    /\ authenticated' = FALSE
    /\ transfer_in_progress' = FALSE

\* _cleanup_connection, up to the statement that raises: AuthState has no member
\* IDLE, so line 285 raises AttributeError and assigns nothing.
CleanupConnection ==
    /\ ResetConnection
    /\ IF current_transfer # None THEN CancelTransfer
       ELSE UNCHANGED <<transfer_vars, now>>

\* _on_client_connect
OnClientConnect(client) ==
    /\ server_call' = ServerCall("connect", client, NoMessage)
    /\ IF current_client # None
       THEN UNCHANGED <<current_client, connection_active, authenticated,
                        transfer_in_progress, status_message>>
       ELSE /\ current_client' = Some(client)
            /\ connection_active' = TRUE
            /\ authenticated' = FALSE
            /\ transfer_in_progress' = FALSE
            /\ status_message' = Status("connected", "")
    /\ UNCHANGED <<auth_message, transfer_vars, now, auth_vars, server_loop, chunk_task, transition>>

\* _on_client_disconnect
OnClientDisconnect(client) ==
    /\ server_call' = ServerCall("disconnect", client, NoMessage)
    /\ IF current_client = Some(client)
       THEN CleanupConnection
       ELSE UNCHANGED <<current_client, connection_active, authenticated,
                        transfer_in_progress, transfer_vars, now>>
    /\ UNCHANGED <<auth_message, status_message, auth_vars, server_loop, chunk_task, transition>>

\* The keys of the dictionaries verify_challenge_response returns.
AuthResultKeys ==
    {"status", "error_code", "message", "session_id", "server_info", "session_timeout"}

\* _handle_auth_write, with _handle_challenge_request, _handle_challenge_response
\* and _handle_mutual_auth.  generate_challenge is called without its client_id
\* (TypeError), verify_challenge_response is called with response_data as the
\* client id and the signature as response_data (TypeError when response_data is
\* a dictionary), and generate_mutual_response does not exist (AttributeError).
HandleAuthWrite(message) ==
    /\ server_call' = ServerCall("auth_write", 0, message)
    /\ IF message.type = "challenge_request"
       THEN /\ auth_message' = AuthErrorMessage("Failed to generate challenge")
            /\ UNCHANGED <<auth_vars, authenticated>>
       ELSE IF message.type = "challenge_response"
       THEN IF message.response_data = None
            THEN /\ auth_message' = AuthErrorMessage("Authentication verification failed")
                 /\ UNCHANGED <<auth_vars, authenticated>>
            ELSE /\ VerifyChallengeResponse(Get(message.response_data),
                                            Get(message.signature))
                 /\ IF "valid" \notin AuthResultKeys
                    THEN /\ auth_message' =
                               AuthErrorMessage("Authentication verification failed")
                         /\ UNCHANGED authenticated
                    ELSE IF auth_result'.status = "authenticated"
                    THEN /\ authenticated' = TRUE
                         /\ auth_message' = [type |-> "auth_success", error |-> "",
                                             session_id |-> auth_result'.session_id]
                    ELSE /\ auth_message' = AuthErrorMessage("Authentication failed")
                         /\ UNCHANGED authenticated
       ELSE IF message.type = "mutual_auth"
       THEN /\ auth_message' = AuthErrorMessage("Mutual authentication failed")
            /\ UNCHANGED <<auth_vars, authenticated>>
       ELSE /\ auth_message' = AuthErrorMessage("Unknown message type")
            /\ UNCHANGED <<auth_vars, authenticated>>
    /\ UNCHANGED <<current_client, connection_active, transfer_in_progress, status_message,
                   transfer_vars, now, server_loop, chunk_task, transition>>

\* Faulty variant: the data channel is open to everyone.
AuthenticationRequiredNever == FALSE

\* _handle_map_data_write's gate
AuthenticationRequired == ~authenticated

\* _handle_transfer_init
HandleTransferInit(message) ==
    /\ StartTransfer(Get(message.metadata))
    /\ transfer_in_progress' = (transfer_in_progress \/ result'.status = "ready")
    /\ status_message' = StatusOf(result')
    /\ UNCHANGED <<current_client, connection_active, authenticated>>

\* _handle_chunk_data: after a completed transfer _disconnect_client runs
\* _cleanup_connection, whose AttributeError is reported as a status error.
HandleChunkData(message) ==
    /\ ReceiveChunk(ChunkData(Get(message.chunk)))
    /\ IF result'.status = "completed" /\ current_client # None
       THEN /\ ResetConnection
            /\ status_message' = Status("error", "Chunk processing failed")
       ELSE /\ transfer_in_progress' = (transfer_in_progress /\ result'.status # "completed")
            /\ status_message' = StatusOf(result')
            /\ UNCHANGED <<current_client, connection_active, authenticated>>

\* _handle_transfer_control
HandleTransferControl(message) ==
    /\ IF message.command = "pause" THEN PauseTransfer /\ UNCHANGED transfer_in_progress
       ELSE IF message.command = "resume" THEN ResumeTransfer /\ UNCHANGED transfer_in_progress
       ELSE IF message.command = "cancel" THEN CancelTransfer /\ transfer_in_progress' = FALSE
       ELSE UNCHANGED <<transfer_vars, now, transfer_in_progress>>
    /\ status_message' =
          IF message.command \in {"pause", "resume", "cancel"} THEN StatusOf(result')
          ELSE IF message.command = "status" THEN Status(GetTransferStatus, "")
          ELSE Status("error", "Unknown command")
    /\ UNCHANGED <<current_client, connection_active, authenticated>>

\* _handle_map_data_write
HandleMapDataWrite(message) ==
    /\ server_call' = ServerCall("map_data_write", 0, message)
    /\ IF AuthenticationRequired
       THEN /\ status_message' = Status("error", "Authentication required")
            /\ UNCHANGED <<current_client, connection_active, authenticated,
                           transfer_in_progress, transfer_vars, now>>
       ELSE IF message.type = "transfer_init" THEN HandleTransferInit(message)
       ELSE IF message.type = "chunk_data" THEN HandleChunkData(message)
       ELSE IF message.type = "transfer_control" THEN HandleTransferControl(message)
       ELSE /\ status_message' = Status("error", "Unknown message type")
            /\ UNCHANGED <<current_client, connection_active, authenticated,
                           transfer_in_progress, transfer_vars, now>>
    /\ UNCHANGED <<auth_message, auth_vars, server_loop, chunk_task, transition>>

\* config["transfer"]["session_timeout"], scaled down from 600 seconds; the
\* manager stores it as transfer_timeout and never reads it
session_timeout == 2
\* config["ble"]["connection_timeout"], scaled down from 60 seconds
connection_timeout == 1

\* _disconnect_client: the status is notified, then _cleanup_connection runs.
DisconnectClient(reason) ==
    IF current_client # None
    THEN /\ status_message' = Status("disconnecting", reason)
         /\ CleanupConnection
    ELSE UNCHANGED <<current_client, connection_active, authenticated,
                     transfer_in_progress, status_message, transfer_vars, now>>

\* _check_connection_timeout; the AttributeError of _cleanup_connection leaves
\* start_server through its handler, which raises it again.
CheckConnectionTimeout ==
    IF /\ current_transfer # None
       /\ now - Get(current_transfer).last_activity > connection_timeout
    THEN /\ DisconnectClient("Connection timeout")
         /\ server_loop' = IF current_client # None THEN "raised" ELSE server_loop
    ELSE UNCHANGED <<current_client, connection_active, authenticated,
                     transfer_in_progress, status_message, transfer_vars, now, server_loop, transition>>

\* One turn of the loop of start_server, taken once a second.
ServerLoop ==
    /\ server_loop = "running"
    /\ IF connection_active /\ current_client # None
       THEN CheckConnectionTimeout
       ELSE UNCHANGED <<current_client, connection_active, authenticated,
                        transfer_in_progress, status_message, transfer_vars, now, server_loop, transition>>
    /\ UNCHANGED <<server_call, auth_message, auth_vars, chunk_task, transition>>

\* ------------------------------------------- the chunk handler as an asyncio task
\* Faulty variant: the scheduler switches tasks between any two statements.
MaySuspendAnywhere(pc) == TRUE

\* The event loop runs another handler only where the running one awaits:
\* when no chunk handler is running, or when it is in asyncio.sleep(1).
\* receive_chunk is a plain function and holds the loop from entry to return.
MaySuspend(pc) == pc \in {"idle", "sleep"}

\* _handle_chunk_data up to the first statement of step 9 of receive_chunk
\* (received_chunks[chunk_index] = chunk_bytes); a call that stores nothing
\* runs to its return and its result is notified.
ChunkEnter(message) ==
    /\ chunk_task = "idle"
    /\ server_call' = ServerCall("chunk_data", 0, message)
    /\ LET chunk_data == ChunkData(Get(message.chunk))
       IN  IF /\ current_transfer # None
              /\ AcceptsChunks(Get(current_transfer))
              /\ ChunkError(Get(current_transfer), chunk_data) = ""
              /\ Get(chunk_data.chunk_index).v
                    \notin DOMAIN Get(current_transfer).received_chunks
           THEN LET s == Get(current_transfer)
                    chunk_index == Get(chunk_data.chunk_index).v
                    received == [i \in (DOMAIN s.received_chunks) \cup {chunk_index} |->
                                    IF i = chunk_index THEN FromHex(Get(chunk_data.data))
                                    ELSE s.received_chunks[i]]
                IN  /\ current_transfer' = Some([s EXCEPT !.received_chunks = received])
                    /\ call' = Call("receive_chunk", None, Some(chunk_data))
                    /\ last_chunk_time' = now
                    /\ chunk_task' = "stored"
                    /\ UNCHANGED <<next_session, required_signature, active_map, temp_map,
                                   backup_dir, backup_map, result, ended, active_at_start,
                                   commit_pc, observed, now, status_message>>
           ELSE /\ ReceiveChunk(chunk_data)
                /\ status_message' = StatusOf(result')
                /\ chunk_task' = "idle"
    /\ UNCHANGED <<current_client, connection_active, authenticated, transfer_in_progress,
                   auth_message, server_loop, auth_vars, transition>>

\* missing_chunks.discard(chunk_index)
ChunkDiscard ==
    /\ chunk_task = "stored"
    /\ LET s == Get(current_transfer)
           chunk_index == Get(Get(call.chunk_data).chunk_index).v
       IN  current_transfer' = Some([s EXCEPT !.missing_chunks = s.missing_chunks \ {chunk_index}])
    /\ chunk_task' = "discarded"
    /\ UNCHANGED <<next_session, required_signature, active_map, temp_map, backup_dir,
                   backup_map, last_chunk_time, call, result, ended, active_at_start,
                   commit_pc, observed, now, auth_vars, current_client, connection_active,
                   authenticated, transfer_in_progress, server_call, auth_message,
                   status_message, server_loop, transition>>

\* chunks_received = len(received_chunks), last_activity and state
ChunkCount ==
    /\ chunk_task = "discarded"
    /\ LET s == Get(current_transfer)
       IN  current_transfer' =
              Some([s EXCEPT !.chunks_received = Cardinality(DOMAIN s.received_chunks),
                             !.last_activity = now,
                             !.state = "receiving_chunks"])
    /\ chunk_task' = "counted"
    /\ UNCHANGED <<next_session, required_signature, active_map, temp_map, backup_dir,
                   backup_map, last_chunk_time, call, result, ended, active_at_start,
                   commit_pc, observed, now, auth_vars, current_client, connection_active,
                   authenticated, transfer_in_progress, server_call, auth_message,
                   status_message, server_loop, transition>>

\* Steps 10 to 14 of receive_chunk, its return, and the notification of the
\* result; after a completed transfer the handler sleeps for a second.
ChunkMetrics ==
    /\ chunk_task = "counted"
    /\ LET s == Get(current_transfer)
           chunk_index == Get(Get(call.chunk_data).chunk_index).v
           stored == UpdateMetrics(s, s.received_chunks[chunk_index])
       IN  IF TransferComplete(stored)
           THEN \E fault \in IOFaults : CompleteTransfer(stored, fault)
           ELSE /\ current_transfer' = Some(stored)
                /\ result' = [NoResult EXCEPT !.status = "chunk_received",
                                 !.chunk_index = chunk_index,
                                 !.chunks_received = stored.chunks_received,
                                 !.total_chunks = stored.total_chunks,
                                 !.missing_chunks = Sorted(stored.missing_chunks)]
                /\ ended' = None
                /\ UNCHANGED <<active_map, temp_map, backup_dir, backup_map, active_at_start>>
    /\ status_message' = StatusOf(result')
    /\ transfer_in_progress' = (transfer_in_progress /\ result'.status # "completed")
    /\ chunk_task' = IF result'.status = "completed" THEN "sleep" ELSE "idle"
    /\ UNCHANGED <<next_session, required_signature, last_chunk_time, call, commit_pc,
                   observed, now, auth_vars, current_client, connection_active,
                   authenticated, server_call, auth_message, server_loop, transition>>

\* The handler wakes from asyncio.sleep(1) and calls _disconnect_client; the
\* AttributeError of _cleanup_connection is notified as a status error.
ChunkWake ==
    /\ chunk_task = "sleep"
    /\ IF current_client # None
       THEN /\ CleanupConnection
            /\ status_message' = Status("error", "Chunk processing failed")
       ELSE UNCHANGED <<current_client, connection_active, authenticated,
                        transfer_in_progress, status_message, transfer_vars, now>>
    /\ chunk_task' = "idle"
    /\ UNCHANGED <<server_call, auth_message, server_loop, auth_vars, transition>>

\* ------------------------------------------------- TransferStateMachine
\* ble.protocol.TransferState
ProtocolStates ==
    {"idle", "initializing", "metadata_received", "receiving_chunks", "validating",
     "completing", "completed", "failed", "cancelled", "paused"}

\* TransferStateMachine.VALID_TRANSITIONS
VALID_TRANSITIONS ==
    [s \in ProtocolStates |->
        CASE s = "idle" -> {"initializing"}
          [] s = "initializing" -> {"metadata_received", "failed"}
          [] s = "metadata_received" -> {"receiving_chunks", "failed"}
          [] s = "receiving_chunks" -> {"validating", "paused", "cancelled", "failed"}
          [] s = "paused" -> {"receiving_chunks", "cancelled"}
          [] s = "validating" -> {"completing", "failed"}
          [] s = "completing" -> {"completed", "failed"}
          [] s = "completed" -> {"idle"}
          [] s = "failed" -> {"idle"}
          [] s = "cancelled" -> {"idle"}]

\* TransferStateMachine.can_transition
CanTransition(from_state, to_state) == to_state \in VALID_TRANSITIONS[from_state]

\* TransferStateMachine.get_valid_next_states
GetValidNextStates(current_state) == VALID_TRANSITIONS[current_state]

\* The record of a call of the state machine.
Transition(op, from_state, to_state, returned) ==
    [op |-> op, from_state |-> from_state, to_state |-> to_state, returned |-> returned]
NoTransition == Transition("none", "idle", "idle", {})

CanTransitionCall(from_state, to_state) ==
    /\ transition' = Transition("can_transition", from_state, to_state,
                                {CanTransition(from_state, to_state)})
    /\ UNCHANGED <<current_client, connection_active, authenticated, transfer_in_progress,
                   server_call, auth_message, status_message, server_loop, chunk_task,
                   transfer_vars, now, auth_vars>>

GetValidNextStatesCall(current_state) ==
    /\ transition' = Transition("get_valid_next_states", current_state, current_state,
                                GetValidNextStates(current_state))
    /\ UNCHANGED <<current_client, connection_active, authenticated, transfer_in_progress,
                   server_call, auth_message, status_message, server_loop, chunk_task,
                   transfer_vars, now, auth_vars>>

\* ------------------------------------------------------------ specification
Init ==
    /\ current_transfer = None
    /\ next_session = 0
    /\ required_signature = TRUE
    /\ active_map = None
    /\ temp_map = None
    /\ backup_dir = {}
    /\ backup_map = None
    /\ now = 0
    /\ last_chunk_time = 0
    /\ call = Call("none", None, None)
    /\ result = NoResult
    /\ ended = None
    /\ active_at_start = None
    /\ commit_pc = "idle"
    /\ observed = active_map
    /\ sessions = [c \in ClientIds |-> None]
    /\ signature_enabled = FALSE
    /\ next_challenge = 0
    /\ auth_call = AuthCall("none", 0, None)
    /\ auth_result = NoAuthResult
    /\ verified = {}
    /\ failures = [c \in ClientIds |-> 0]
    /\ issued = {}
    /\ current_client = None
    /\ connection_active = FALSE
    /\ authenticated = FALSE
    /\ transfer_in_progress = FALSE
    /\ server_call = ServerCall("none", 0, NoMessage)
    /\ auth_message = AuthErrorMessage("")
    /\ status_message = NoStatus
    /\ server_loop = "running"
    /\ chunk_task = "idle"
    /\ transition = NoTransition

\* The transfer manager driven through its public methods.
Next ==
    \/ \E metadata \in Metadata :
          StartTransfer(metadata) /\ UNCHANGED <<auth_vars, server_vars>>
    \/ \E body \in FrameBodies :
          ReceiveChunk(ChunkData(body)) /\ UNCHANGED <<auth_vars, server_vars>>
    \/ PauseTransfer /\ UNCHANGED <<auth_vars, server_vars>>
    \/ ResumeTransfer /\ UNCHANGED <<auth_vars, server_vars>>
    \/ CancelTransfer /\ UNCHANGED <<auth_vars, server_vars>>

Spec == Init /\ [][Next]_vars

\* The authentication manager driven through its public methods, and the server
\* driven by the transport's callbacks, as seconds pass.
AuthNext ==
    \/ \E c \in Clients :
          GenerateChallenge(c) /\ UNCHANGED <<transfer_vars, now, server_vars>>
    \/ \E c \in Clients : \E r \in SentResponseData(c) :
          VerifyChallengeResponse(c, r) /\ UNCHANGED <<transfer_vars, now, server_vars>>
    \/ \E c \in Clients :
          IsAuthenticatedCall(c) /\ UNCHANGED <<transfer_vars, now, server_vars>>
    \/ \E c \in Clients :
          InvalidateSession(c) /\ UNCHANGED <<transfer_vars, now, server_vars>>
    \/ \E b \in BOOLEAN :
          Configure(b) /\ UNCHANGED <<transfer_vars, now, server_vars>>
    \/ Tick /\ UNCHANGED <<transfer_vars, auth_vars, server_vars>>

AuthSpec == Init /\ [][AuthNext]_vars

\* The authentication manager called for two clients, as seconds pass.
TwoClientNext ==
    \/ \E c \in ClientIds :
          GenerateChallenge(c) /\ UNCHANGED <<transfer_vars, now, server_vars>>
    \/ \E c \in ClientIds : \E r \in SentResponseData(c) :
          VerifyChallengeResponse(c, r) /\ UNCHANGED <<transfer_vars, now, server_vars>>
    \/ \E c \in ClientIds :
          IsAuthenticatedCall(c) /\ UNCHANGED <<transfer_vars, now, server_vars>>
    \/ \E c \in ClientIds :
          InvalidateSession(c) /\ UNCHANGED <<transfer_vars, now, server_vars>>
    \/ Tick /\ UNCHANGED <<transfer_vars, auth_vars, server_vars>>

TwoClientSpec == Init /\ [][TwoClientNext]_vars

\* The server driven by the transport's callbacks, beside an authentication
\* manager that is also called directly.
ServerNext ==
    \/ \E d \in Devices : OnClientConnect(d)
    \/ \E d \in Devices : OnClientDisconnect(d)
    \/ \E m \in AuthMessages : HandleAuthWrite(m)
    \/ \E m \in DataMessages : HandleMapDataWrite(m)
    \/ \E c \in Clients :
          GenerateChallenge(c) /\ UNCHANGED <<transfer_vars, now, server_vars>>
    \/ \E c \in Clients : \E r \in SentResponseData(c) :
          VerifyChallengeResponse(c, r) /\ UNCHANGED <<transfer_vars, now, server_vars>>

ServerSpec == Init /\ [][ServerNext]_vars

\* config["storage"]["max_backups"], scaled down from 10
max_backups == 1

\* A manager constructed over a storage directory that already holds a map.
InstalledInit ==
    /\ current_transfer = None
    /\ next_session = 0
    /\ required_signature = TRUE
    /\ active_map = Some(MapV1)
    /\ temp_map = None
    /\ backup_dir = {}
    /\ backup_map = None
    /\ now = 0
    /\ last_chunk_time = 0
    /\ call = Call("none", None, None)
    /\ result = NoResult
    /\ ended = None
    /\ active_at_start = None
    /\ commit_pc = "idle"
    /\ observed = active_map
    /\ sessions = [c \in ClientIds |-> None]
    /\ signature_enabled = FALSE
    /\ next_challenge = 0
    /\ auth_call = AuthCall("none", 0, None)
    /\ auth_result = NoAuthResult
    /\ verified = {}
    /\ failures = [c \in ClientIds |-> 0]
    /\ issued = {}
    /\ current_client = None
    /\ connection_active = FALSE
    /\ authenticated = FALSE
    /\ transfer_in_progress = FALSE
    /\ server_call = ServerCall("none", 0, NoMessage)
    /\ auth_message = AuthErrorMessage("")
    /\ status_message = NoStatus
    /\ server_loop = "running"
    /\ chunk_task = "idle"
    /\ transition = NoTransition

\* The updates an honest sender offers, uncompressed, and its frames.
UpdateMetadata ==
    UNION {{HonestMetadata(f, "none", v) : v \in AnnouncedVersions(f)} : f \in CompressibleMaps}
UpdateFrameBodies ==
    UNION {{FrameBody(Some(PyInt(i)), Some(ToHex(Slice(f, i))), "own", None)
            : i \in 0..(CalculateTotalChunks(Len(f)) - 1)} : f \in CompressibleMaps}

\* The transfer manager receiving one update after another as seconds pass.
BackupNext ==
    \/ \E metadata \in UpdateMetadata :
          StartTransfer(metadata) /\ UNCHANGED <<auth_vars, server_vars>>
    \/ \E body \in UpdateFrameBodies :
          ReceiveChunk(ChunkData(body)) /\ UNCHANGED <<auth_vars, server_vars>>
    \/ Tick /\ UNCHANGED <<transfer_vars, auth_vars, server_vars>>

BackupSpec == InstalledInit /\ [][BackupNext]_vars

\* The server's loop beside a transfer manager that receives updates, while
\* clients come and go and seconds pass.  The loop is scheduled every second
\* and the clock does not stop.
TimeoutNext ==
    \/ \E metadata \in UpdateMetadata :
          StartTransfer(metadata) /\ UNCHANGED <<auth_vars, server_vars>>
    \/ \E body \in UpdateFrameBodies :
          ReceiveChunk(ChunkData(body)) /\ UNCHANGED <<auth_vars, server_vars>>
    \/ PauseTransfer /\ UNCHANGED <<auth_vars, server_vars>>
    \/ \E d \in Devices : OnClientConnect(d)
    \/ \E d \in Devices : OnClientDisconnect(d)
    \/ ServerLoop
    \/ Tick /\ UNCHANGED <<transfer_vars, auth_vars, server_vars>>

TimeoutSpec ==
    InstalledInit /\ [][TimeoutNext]_vars /\ WF_vars(ServerLoop)
    /\ WF_vars(Tick /\ UNCHANGED <<transfer_vars, auth_vars, server_vars>>)

\* The transfer manager with steps 5 and 6 taken one file operation at a time,
\* beside a process that reads the active map, with crashes and restarts.
\* receive_chunk runs to its end before another call is served, and within
\* the second in which it began.
CommitNext ==
    \/ \E metadata \in UpdateMetadata :
          /\ commit_pc = "idle"
          /\ StartTransfer(metadata)
          /\ UNCHANGED <<auth_vars, server_vars>>
    \/ \E body \in UpdateFrameBodies :
          /\ commit_pc = "idle"
          /\ ReceiveChunk(ChunkData(body))
          /\ ended' = None
          /\ UNCHANGED <<auth_vars, server_vars>>
    \/ \E body \in UpdateFrameBodies :
          BeginCommit(ChunkData(body)) /\ UNCHANGED <<auth_vars, server_vars>>
    \/ CommitCopy /\ UNCHANGED <<auth_vars, server_vars>>
    \/ CommitUnlink /\ UNCHANGED <<auth_vars, server_vars>>
    \/ CommitSymlink /\ UNCHANGED <<auth_vars, server_vars>>
    \/ CommitOpen /\ UNCHANGED <<auth_vars, server_vars>>
    \/ CommitWrite /\ UNCHANGED <<auth_vars, server_vars>>
    \/ CommitReplace /\ UNCHANGED <<auth_vars, server_vars>>
    \/ CommitFinish /\ UNCHANGED <<auth_vars, server_vars>>
    \/ CommitFault /\ UNCHANGED <<auth_vars, server_vars>>
    \/ Crash /\ UNCHANGED <<auth_vars, server_vars>>
    \/ Restart /\ UNCHANGED <<auth_vars, server_vars>>
    \/ ReadActiveMap /\ UNCHANGED <<auth_vars, server_vars>>
    \/ /\ commit_pc = "idle"
       /\ Tick
       /\ UNCHANGED <<transfer_vars, auth_vars, server_vars>>

CommitSpec == InstalledInit /\ [][CommitNext]_vars

\* The device whose connection the data handlers serve.
AsyncDevices == {1}

\* The messages of the data channel, by handler.
InitMessages ==
    {Message("transfer_init", Some(m), None, "", None, None) :
        m \in UpdateMetadata}
ChunkMessages ==
    {Message("chunk_data", None, Some(b), "", None, None) :
        b \in UpdateFrameBodies \cup {EmptyFrame}}
ControlMessages ==
    {Message("transfer_control", None, None, c, None, None) :
        c \in {"pause", "resume", "cancel"}}

\* The handlers of the data channel as tasks of one event loop, entered behind
\* the authentication gate of _handle_map_data_write, beside the connection
\* callbacks and the loop of start_server.
AsyncNext ==
    \/ \E m \in ChunkMessages : ChunkEnter(m)
    \/ ChunkDiscard
    \/ ChunkCount
    \/ ChunkMetrics
    \/ ChunkWake
    \/ \E m \in InitMessages :
          /\ MaySuspend(chunk_task)
          /\ HandleTransferInit(m)
          /\ server_call' = ServerCall("transfer_init", 0, m)
          /\ UNCHANGED <<auth_message, auth_vars, server_loop, chunk_task, transition>>
    \/ \E m \in ControlMessages :
          /\ MaySuspend(chunk_task)
          /\ HandleTransferControl(m)
          /\ server_call' = ServerCall("transfer_control", 0, m)
          /\ UNCHANGED <<auth_message, auth_vars, server_loop, chunk_task, transition>>
    \/ \E d \in AsyncDevices : MaySuspend(chunk_task) /\ OnClientConnect(d)
    \/ \E d \in AsyncDevices : MaySuspend(chunk_task) /\ OnClientDisconnect(d)
    \/ MaySuspend(chunk_task) /\ ServerLoop
    \/ /\ MaySuspend(chunk_task)
       /\ Tick
       /\ UNCHANGED <<transfer_vars, auth_vars, server_vars>>

AsyncSpec == Init /\ [][AsyncNext]_vars

\* The state machine of ble.protocol called with every state and pair of states.
StateMachineNext ==
    \/ \E from_state \in ProtocolStates : \E to_state \in ProtocolStates :
          CanTransitionCall(from_state, to_state)
    \/ \E current_state \in ProtocolStates : GetValidNextStatesCall(current_state)

StateMachineSpec == Init /\ [][StateMachineNext]_vars

\* ------------------------------------------------------------------ claims
AllIndices(s) == 0..(s.total_chunks - 1)
WireSize(s) == IF s.is_compressed THEN s.compressed_size ELSE s.file_size
ToSet(seq) == {seq[i] : i \in 1..Len(seq)}

RECURSIVE SumOfLengths(_, _)
SumOfLengths(received, indices) ==
    IF indices = {} THEN 0
    ELSE LET i == CHOOSE x \in indices : TRUE
         IN  Len(received[i]) + SumOfLengths(received, indices \ {i})

\* The sessions a state shows: the current one and the one the last call ended.
VisibleSessions ==
    (IF current_transfer = None THEN {} ELSE {Get(current_transfer)})
    \cup (IF ended = None THEN {} ELSE {Get(ended).session})

\* The chunk index of the last receive_chunk call (-1 when it carried no integer).
CalledIndex(c) ==
    IF c.op = "receive_chunk" /\ Get(c.chunk_data).chunk_index # None
       /\ Get(Get(c.chunk_data).chunk_index).t = "int"
    THEN Get(Get(c.chunk_data).chunk_index).v ELSE -1

\* C1: start_transfer called while a session is active returns an error and
\* leaves the existing session unchanged; no start_transfer replaces or discards
\* an in-progress session.
C1_StartWhileActiveRejected ==
    [][(current_transfer # None /\ call'.op = "start_transfer")
        => (result'.status = "error" /\ current_transfer' = current_transfer)]_vars

\* C2: with an active session, the keys of received_chunks and missing_chunks
\* are disjoint and their union is {0..total_chunks-1}.
C2_ReceivedMissingPartition ==
    current_transfer # None =>
        LET s == Get(current_transfer)
        IN  /\ (DOMAIN s.received_chunks) \cap s.missing_chunks = {}
            /\ (DOMAIN s.received_chunks) \cup s.missing_chunks = AllIndices(s)

C2_Witness ==
    /\ current_transfer # None
    /\ Get(current_transfer).state = "resuming"
    /\ DOMAIN Get(current_transfer).received_chunks # {}
    /\ Get(current_transfer).missing_chunks # {}
    /\ Get(current_transfer).metrics.retries > 0

\* C3: with an active session, metrics.bytes_transferred is the sum of the
\* lengths of the stored chunks and chunks_received is their number; a duplicate
\* or rejected chunk changes neither counter.
C3_CountersMatchStoredChunks ==
    /\ [](current_transfer # None =>
            LET s == Get(current_transfer)
            IN  /\ s.metrics.bytes_transferred
                     = SumOfLengths(s.received_chunks, DOMAIN s.received_chunks)
                /\ s.chunks_received = Cardinality(DOMAIN s.received_chunks))
    /\ [][(call'.op = "receive_chunk" /\ result'.status \in {"duplicate", "error"}
           /\ current_transfer # None /\ current_transfer' # None)
          => /\ Get(current_transfer').metrics.bytes_transferred
                  = Get(current_transfer).metrics.bytes_transferred
             /\ Get(current_transfer').chunks_received
                  = Get(current_transfer).chunks_received]_vars

C3_Witness ==
    /\ current_transfer # None
    /\ call.op = "receive_chunk"
    /\ result.status = "duplicate"
    /\ Get(current_transfer).metrics.bytes_transferred = 1
    /\ Get(current_transfer).chunks_received = 1

\* C4: every stored chunk has an index in 0..total_chunks-1 and the expected
\* length: chunk_size, or for the last chunk wire_size - (total_chunks-1)*chunk_size,
\* which lies in 1..chunk_size.
C4_StoredChunksHaveExpectedLength ==
    \A s \in VisibleSessions : \A i \in DOMAIN s.received_chunks :
        /\ 0 <= i /\ i < s.total_chunks
        /\ Len(s.received_chunks[i])
             = (IF i = s.total_chunks - 1
                THEN WireSize(s) - (s.total_chunks - 1) * chunk_size
                ELSE chunk_size)
        /\ Len(s.received_chunks[i]) \in 1..chunk_size

C4_Witness ==
    /\ current_transfer # None
    /\ \E i \in DOMAIN Get(current_transfer).received_chunks :
          /\ i = Get(current_transfer).total_chunks - 1
          /\ Len(Get(current_transfer).received_chunks[i]) < chunk_size
    /\ Get(current_transfer).is_compressed

C6_CompletedOnlyAfterIntegrityChecks ==
    (result.status = "completed" \/ (ended # None /\ Get(ended).session.state = "completed"))
    => /\ ended # None
       /\ result.status = "completed"
       /\ LET s == Get(ended).session
              wire == JoinChunks(s.received_chunks, DOMAIN s.received_chunks)
          IN  /\ s.state = "completed"
              /\ DOMAIN s.received_chunks = AllIndices(s)
              /\ Len(wire) = WireSize(s)
              /\ sha256(wire) = (IF s.is_compressed THEN s.compressed_hash ELSE s.file_hash)
              /\ s.is_compressed =>
                    /\ GzipOk(wire)
                    /\ sha256(gzip_decompress(wire)) = s.file_hash

C6_Witness ==
    /\ result.status = "completed"
    /\ ended # None
    /\ Get(ended).session.is_compressed
    /\ Get(ended).session.total_chunks > 1

\* C7: every successful install leaves at active_path a map whose version is
\* strictly greater than the version installed before.
C7_InstalledVersionIncreases ==
    [][result'.status = "completed"
        => GetCurrentMapVersion(active_map') > GetCurrentMapVersion(active_map)]_vars

\* An install completed, and the version read back from active_path is not the
\* version the sender announced.
C7_Witness ==
    /\ result.status = "completed"
    /\ GetCurrentMapVersion(active_map) # result.new_version

\* C8: for every session that ends Failed, active_path holds what it held when
\* the session started (and is absent if it was absent).
C8_FailedSessionLeavesActiveMap ==
    (ended # None /\ Get(ended).session.state = "failed")
    => active_map = Get(ended).active_before

\* A session failed in the file operations of the commit, over an installed map.
C8_Witness ==
    /\ ended # None
    /\ Get(ended).session.state = "failed"
    /\ Get(ended).message = "OSError"
    /\ Get(ended).active_before # None

\* C9: after pause_transfer then resume_transfer the session is in Receiving
\* again, so that receive_chunk accepts the missing chunks.
C9_ResumeReturnsToReceiving ==
    (call.op = "resume_transfer" /\ result.status = "resuming")
    => Get(current_transfer).state \in {"metadata_received", "receiving_chunks"}

\* A chunk sent to a resumed session was answered INVALID_STATE.
C9_Witness ==
    /\ call.op = "receive_chunk"
    /\ result.error_code = "INVALID_STATE"
    /\ current_transfer # None
    /\ Get(current_transfer).state = "resuming"
    /\ CalledIndex(call) \in Get(current_transfer).missing_chunks

\* C10: the missing set resume_transfer returns is the complement of the indices
\* accepted before the pause, and the chunks accepted before the pause are
\* still stored unchanged.
C10_ResumeReturnsComplement ==
    [][/\ (call'.op = "resume_transfer" /\ result'.status = "resuming")
          => /\ ToSet(result'.missing_chunks) \cup DOMAIN Get(current_transfer).received_chunks
                  = AllIndices(Get(current_transfer))
             /\ ToSet(result'.missing_chunks) \cap DOMAIN Get(current_transfer).received_chunks
                  = {}
             /\ Get(current_transfer').received_chunks = Get(current_transfer).received_chunks
       /\ (call'.op = "pause_transfer" /\ result'.status = "paused")
          => Get(current_transfer').received_chunks = Get(current_transfer).received_chunks
       /\ (/\ current_transfer # None /\ current_transfer' # None
           /\ Get(current_transfer).state = "paused"
           /\ Get(current_transfer').session_id = Get(current_transfer).session_id)
          => Get(current_transfer').received_chunks = Get(current_transfer).received_chunks
      ]_vars

C10_Witness ==
    /\ call.op = "resume_transfer"
    /\ result.status = "resuming"
    /\ result.missing_chunks # <<>>
    /\ DOMAIN Get(current_transfer).received_chunks # {}

\* C11: pause_transfer succeeds only from receiving_chunks and resume_transfer
\* only from paused; in every other state, and with no session, each returns an
\* error and leaves the session (its state and its chunk table) unchanged.
C11_PauseResumeOnlyFromLegalState ==
    [][/\ call'.op = "pause_transfer" =>
            IF current_transfer # None /\ Get(current_transfer).state = "receiving_chunks"
            THEN /\ result'.status = "paused"
                 /\ Get(current_transfer').state = "paused"
            ELSE /\ result'.status = "error"
                 /\ current_transfer' = current_transfer
       /\ call'.op = "resume_transfer" =>
            IF current_transfer # None /\ Get(current_transfer).state = "paused"
            THEN /\ result'.status = "resuming"
                 /\ Get(current_transfer').state = "resuming"
            ELSE /\ result'.status = "error"
                 /\ current_transfer' = current_transfer
      ]_vars

\* pause_transfer was refused for a session that has stored no chunk yet.
C11_Witness ==
    /\ call.op = "pause_transfer"
    /\ result.status = "error"
    /\ current_transfer # None
    /\ Get(current_transfer).state = "metadata_received"

\* C12: cancel_transfer succeeds from every state of an active session; after
\* it there is no active session (the status is idle), active_path and the
\* backups are unchanged, no staging file is left and a start_transfer with
\* acceptable metadata is accepted.  With no session it returns an error and
\* changes nothing.
C12_CancelEndsSession ==
    [][/\ call'.op = "cancel_transfer" =>
            /\ active_map' = active_map
            /\ backup_dir' = backup_dir /\ backup_map' = backup_map
            /\ temp_map' = None
            /\ current_transfer' = None
            /\ GetTransferStatus' = "idle"
            /\ result'.status = IF current_transfer # None THEN "cancelled" ELSE "error"
            /\ current_transfer # None =>
                  /\ result'.session_id = Get(current_transfer).session_id
                  /\ Get(ended').session.state = "cancelled"
       /\ (/\ call.op = "cancel_transfer"
           /\ call'.op = "start_transfer"
           /\ StartTransferError(Get(call'.metadata)) = "")
          => (result'.status = "ready" /\ current_transfer' # None)
      ]_vars

\* A resumed session holding a chunk was cancelled over an installed map.
C12_Witness ==
    /\ call.op = "cancel_transfer"
    /\ result.status = "cancelled"
    /\ current_transfer = None
    /\ DOMAIN Get(ended).session.received_chunks # {}
    /\ active_map # None

\* C13: while the connection is not authenticated every write on the data
\* channel is answered with the error "Authentication required" and does not
\* reach the transfer manager: no session is created and no session, chunk
\* table or file changes.
C13_UnauthenticatedDataRejected ==
    [][((\E m \in DataMessages : HandleMapDataWrite(m)) /\ ~authenticated)
         => /\ status_message' = Status("error", "Authentication required")
            /\ UNCHANGED <<transfer_vars, authenticated>>
      ]_vars

\* A connected client's chunk_data frame was refused although the
\* authentication manager holds an authenticated session.
C13_Witness ==
    /\ server_call.op = "map_data_write"
    /\ server_call.type = "chunk_data"
    /\ current_client # None
    /\ ~authenticated
    /\ \E c \in Clients : IsAuthenticated(c)
    /\ status_message = Status("error", "Authentication required")
    /\ current_transfer = None

\* C14: a connected client that writes a challenge_request on the auth channel
\* is sent a challenge, and when it writes a challenge_response that the
\* authentication manager accepts the server marks the connection
\* authenticated and answers auth_success.
C14_RequestAndResponseAuthenticate ==
    [][\A m \in AuthMessages :
          (HandleAuthWrite(m) /\ current_client # None) =>
             /\ m.type = "challenge_request" => auth_message'.type = "challenge"
             /\ (/\ m.type = "challenge_response"
                 /\ auth_call'.op = "verify_challenge_response"
                 /\ auth_result'.status = "authenticated")
                => (authenticated' /\ auth_message'.type = "auth_success")
      ]_vars

\* The authentication manager accepted the response a connected client wrote,
\* and the server answered auth_error and left the connection unauthenticated.
C14_Witness ==
    /\ server_call.op = "auth_write"
    /\ server_call.type = "challenge_response"
    /\ current_client # None
    /\ auth_call.op = "verify_challenge_response"
    /\ auth_result.status = "authenticated"
    /\ auth_message.type = "auth_error"
    /\ ~authenticated

\* C19: after the disconnect of the current client no authenticated state
\* remains: the server's flag is false and is_authenticated is false for every
\* client of the authentication manager.
C19_DisconnectEndsAuthentication ==
    [][\A d \in Devices :
          (OnClientDisconnect(d) /\ current_client = Some(d)) =>
             /\ current_client' = None
             /\ ~authenticated'
             /\ \A c \in Clients : ~IsAuthenticated(c)'
      ]_vars

\* The current client has disconnected and the authentication manager still
\* reports a client authenticated.
C19_Witness ==
    /\ server_call.op = "disconnect"
    /\ current_client = None
    /\ ~authenticated
    /\ \E c \in Clients : IsAuthenticated(c)

\* C15: a challenge is single-use: once verify_challenge_response has been
\* called for a challenge, whatever the outcome, no later call returns the
\* status authenticated for a session that holds the same challenge.
C15_ChallengeSingleUse ==
    [][\A c \in Clients :
          (/\ auth_call'.op = "verify_challenge_response"
           /\ auth_call'.client_id = c
           /\ sessions' # sessions
           /\ auth_result'.status = "authenticated")
          => (sessions[c] # None /\ Get(sessions[c]).challenge \notin verified)
      ]_vars

\* A response carrying a challenge that was already verified was sent again,
\* with the expected signature, and refused.
C15_Witness ==
    /\ auth_call.op = "verify_challenge_response"
    /\ auth_result.error_code = "INVALID_STATE"
    /\ \E c \in Clients :
          /\ auth_call.client_id = c
          /\ sessions[c] # None
          /\ Get(sessions[c]).attempts = 2
          /\ Get(sessions[c]).challenge \in verified
          /\ issued # {}
          /\ Get(auth_call.response_data) =
                [challenge |-> Some(Get(sessions[c]).challenge),
                 signature |-> Some(DemoSignature(Get(sessions[c]).challenge, c))]

\* C16: the attempts counter of a client is not reset by a new challenge, a
\* client never makes more than max_attempts failed verifications, and once it
\* has made max_attempts of them it is issued no challenge and no response of
\* it is accepted.
C16_AttemptsBounded ==
    [][\A c \in Clients :
          /\ (/\ auth_call'.op = "generate_challenge"
              /\ sessions[c] # None /\ sessions'[c] # None)
             => Get(sessions'[c]).attempts >= Get(sessions[c]).attempts
          /\ failures'[c] <= max_attempts
          /\ (failures[c] >= max_attempts /\ auth_call'.client_id = c)
             => auth_result'.status \notin {"challenge_generated", "authenticated"}
      ]_vars

\* A client whose session had counted a failed verification holds a new
\* challenge with no attempt counted.
C16_Witness ==
    \E c \in Clients :
       /\ failures[c] = 1
       /\ auth_call = AuthCall("generate_challenge", c, None)
       /\ auth_result.status = "challenge_generated"
       /\ Get(sessions[c]).attempts = 0

\* C17: a response verified when exactly auth_timeout seconds have passed since
\* the challenge was drawn is accepted; one verified later fails with
\* CHALLENGE_EXPIRED, leaves the session expired, and an expired session never
\* becomes authenticated.
C17_WindowInclusive ==
    [][\A c \in Clients :
          /\ (/\ auth_call'.op = "verify_challenge_response"
              /\ auth_call'.client_id = c
              /\ sessions' # sessions
              /\ Get(sessions[c]).state = "challenge_sent")
             => LET session == Get(sessions[c])
                    response == Get(auth_call'.response_data)
                    elapsed == now - session.challenge_time
                IN  /\ elapsed > auth_timeout =>
                          /\ auth_result' = AuthError("CHALLENGE_EXPIRED")
                          /\ Get(sessions'[c]).state = "expired"
                    /\ (/\ elapsed <= auth_timeout
                        /\ response.challenge = Some(session.challenge)
                        /\ response.signature =
                              Some(DemoSignature(session.challenge, c)))
                       => /\ auth_result'.status = "authenticated"
                          /\ Get(sessions'[c]).state = "authenticated"
          /\ (sessions[c] # None /\ Get(sessions[c]).state = "expired")
             => (sessions'[c] = None \/ Get(sessions'[c]).state # "authenticated")
      ]_vars

\* A response was accepted in the second in which exactly auth_timeout seconds
\* had passed since its challenge was drawn.
C17_Witness ==
    \E c \in Clients :
       /\ auth_call.op = "verify_challenge_response"
       /\ auth_call.client_id = c
       /\ auth_result.status = "authenticated"
       /\ auth_result.session_id = Some(GenerateSessionId(c))
       /\ Get(sessions[c]).state = "authenticated"
       /\ now - Get(sessions[c]).challenge_time = auth_timeout

\* C18: verify_challenge_response returns the status authenticated only for a
\* response whose signature is the one expected for the outstanding challenge,
\* whether signature_enabled is true or false; a different or an empty
\* signature leaves the client unauthenticated.
C18_SignatureMustVerify ==
    [][\A c \in Clients :
          (/\ auth_call'.op = "verify_challenge_response"
           /\ auth_call'.client_id = c
           /\ sessions' # sessions
           /\ Get(sessions'[c]).state = "authenticated"
           /\ Get(sessions[c]).state # "authenticated")
          => /\ Get(auth_call'.response_data).signature # None
             /\ VerifySignature(Get(sessions[c]).challenge,
                                Get(Get(auth_call'.response_data).signature), c)
      ]_vars

\* With signature_enabled left false, a response with an empty signature
\* authenticated the client.
C18_Witness ==
    \E c \in Clients :
       /\ ~signature_enabled
       /\ auth_call.op = "verify_challenge_response"
       /\ auth_call.client_id = c
       /\ Get(auth_call.response_data).signature = Some(EmptySignature)
       /\ auth_result.status = "authenticated"
       /\ IsAuthenticated(c)

\* C20: no two sessions have the same session_id: every start_transfer that
\* creates a session and every successful authentication returns an id that
\* was not returned before, also for one client within one second.
C20_SessionIdsDiffer ==
    [][/\ (call'.op = "start_transfer" /\ result'.status = "ready"
           /\ next_session' # next_session)
          => Get(current_transfer').session_id = next_session + 1
       /\ (/\ auth_call'.op = "verify_challenge_response"
           /\ sessions' # sessions
           /\ auth_result'.status = "authenticated")
          => Get(auth_result'.session_id) \notin issued
      ]_vars

\* A client authenticated, was invalidated, and authenticated again on a new
\* challenge within the same second.
C20_Witness ==
    \E c \in Clients :
       /\ auth_call.op = "verify_challenge_response"
       /\ auth_result.status = "authenticated"
       /\ auth_result.session_id = Some(GenerateSessionId(c))
       /\ Get(sessions[c]).challenge = 2
       /\ Get(sessions[c]).challenge_time = now
       /\ 1 \in verified
       /\ issued = {GenerateSessionId(c)}

\* The number of bytes metadata announces for the wire: compressed_size when a
\* compression other than none is named, file_size otherwise.
AnnouncedWireSize(metadata) ==
    IF metadata.compression # None /\ Get(metadata.compression) # "none"
       /\ metadata.compressed_size # None
    THEN Get(metadata.compressed_size)
    ELSE Get(metadata.file_size).v

\* C22: start_transfer applies the size limit to the wire size: metadata whose
\* only fault can be its size is accepted with a wire size of max_transfer_size
\* and refused with error code FILE_TOO_LARGE, creating no session, with a
\* wire size above it.
C22_SizeLimitOnWireSize ==
    [][\A m \in Metadata :
          (StartTransfer(m) /\ StartTransferError(m) \in {"", "File too large"}) =>
             /\ AnnouncedWireSize(m) > max_transfer_size =>
                   /\ result'.status = "error"
                   /\ result'.error_code = "FILE_TOO_LARGE"
                   /\ current_transfer' = current_transfer
             /\ AnnouncedWireSize(m) = max_transfer_size =>
                   /\ result'.status = "ready"
                   /\ current_transfer' # None
      ]_vars

\* A session was created for a compressed transfer whose compressed_size is
\* above max_transfer_size.
C22_Witness ==
    /\ call.op = "start_transfer"
    /\ result.status = "ready"
    /\ current_transfer # None
    /\ Get(current_transfer).is_compressed
    /\ Get(current_transfer).compressed_size > max_transfer_size
    /\ Get(current_transfer).session_id = result.session_id

\* C23: start_transfer with a version not above the installed one is refused
\* with error code VERSION_TOO_OLD and creates no session; with the installed
\* version plus one (and metadata otherwise acceptable) it is accepted.
C23_VersionMustIncrease ==
    [][\A m \in Metadata :
          (StartTransfer(m) /\ StartTransferError(m) \in {"", "Version too old"}) =>
             /\ Get(m.version).v <= GetCurrentMapVersion(active_map) =>
                   /\ result'.status = "error"
                   /\ result'.error_code = "VERSION_TOO_OLD"
                   /\ current_transfer' = current_transfer
             /\ Get(m.version).v = GetCurrentMapVersion(active_map) + 1 =>
                   /\ result'.status = "ready"
                   /\ current_transfer' # None
      ]_vars

\* Metadata announcing the installed version was refused, with error code
\* INIT_FAILED.
C23_Witness ==
    /\ call.op = "start_transfer"
    /\ active_map # None
    /\ call.metadata # None
    /\ Get(call.metadata).version = Some(PyInt(GetCurrentMapVersion(active_map)))
    /\ result.status = "error"
    /\ result.error_code = "INIT_FAILED"
    /\ result.message = "Version too old"

\* C24: receive_chunk accepts a chunk only from a frame that carries the
\* session_id of the active session; a frame with another, an empty or no
\* session_id is refused and changes neither the chunk table, the missing set,
\* the counters nor the state.
C24_SessionIdRequired ==
    [][\A body \in FrameBodies :
          (/\ ReceiveChunk(ChunkData(body))
           /\ current_transfer # None
           /\ body.sid # "own")
          => /\ result'.status = "error"
             /\ current_transfer' # None
             /\ Get(current_transfer').received_chunks = Get(current_transfer).received_chunks
             /\ Get(current_transfer').missing_chunks = Get(current_transfer).missing_chunks
             /\ Get(current_transfer').chunks_received = Get(current_transfer).chunks_received
             /\ Get(current_transfer').metrics.bytes_transferred
                  = Get(current_transfer).metrics.bytes_transferred
             /\ Get(current_transfer').state = Get(current_transfer).state
      ]_vars

\* A chunk from a frame without session_id was stored.
C24_Witness ==
    /\ call.op = "receive_chunk"
    /\ Get(call.chunk_data).session_id = None
    /\ result.status = "chunk_received"
    /\ current_transfer # None
    /\ CalledIndex(call) \in DOMAIN Get(current_transfer).received_chunks

\* The reasons for which receive_chunk rejects a chunk for its index, its
\* payload or its checksum.
ChunkRejections ==
    {"Invalid chunk_index", "Chunk index exceeds total", "Invalid hex data in chunk",
     "Chunk size mismatch", "Chunk checksum mismatch"}

\* C28: a chunk rejected for an out-of-range or non-integer index, a wrong
\* payload length, invalid hex or a checksum mismatch changes neither the chunk
\* table, the missing set, chunks_received, the byte counter nor the state; the
\* session still takes chunks, and a correct chunk sent next is stored.
C28_RejectedChunkIsDropped ==
    [][(/\ call'.op = "receive_chunk"
        /\ current_transfer # None
        /\ AcceptsChunks(Get(current_transfer)))
       => LET s == Get(current_transfer)
              msg == ChunkError(s, Get(call'.chunk_data))
          IN  /\ msg \in ChunkRejections =>
                    /\ result'.status = "error"
                    /\ result'.error_code = "CHUNK_PROCESSING_FAILED"
                    /\ current_transfer' # None
                    /\ AcceptsChunks(Get(current_transfer'))
                    /\ Get(current_transfer').received_chunks = s.received_chunks
                    /\ Get(current_transfer').missing_chunks = s.missing_chunks
                    /\ Get(current_transfer').chunks_received = s.chunks_received
                    /\ Get(current_transfer').metrics.bytes_transferred
                         = s.metrics.bytes_transferred
                    /\ Get(current_transfer').state = s.state
              /\ (/\ msg = ""
                  /\ call.op = "receive_chunk"
                  /\ result.message \in ChunkRejections
                  /\ CalledIndex(call') \notin DOMAIN s.received_chunks)
                 => /\ result'.error_code \notin {"CHUNK_PROCESSING_FAILED", "INVALID_STATE",
                                                  "NO_ACTIVE_TRANSFER"}
                    /\ CalledIndex(call') \in
                          DOMAIN (IF ended' # None THEN Get(ended').session
                                  ELSE Get(current_transfer')).received_chunks
      ]_vars

\* A chunk with a wrong checksum was rejected by a session that holds a chunk
\* and is still receiving.
C28_Witness ==
    /\ call.op = "receive_chunk"
    /\ result.error_code = "CHUNK_PROCESSING_FAILED"
    /\ result.message = "Chunk checksum mismatch"
    /\ current_transfer # None
    /\ Get(current_transfer).state = "receiving_chunks"
    /\ Get(current_transfer).chunks_received = 1
    /\ Get(current_transfer).metrics.retries = 1

\* C29: receive_chunk processes a chunk only in metadata_received or
\* receiving_chunks, and a stored chunk leaves the session in
\* receiving_chunks; with no session it returns NO_ACTIVE_TRANSFER and in any
\* other state, paused in particular, INVALID_STATE, and in both cases nothing
\* changes.
C29_ChunksOnlyWhileReceiving ==
    [][call'.op = "receive_chunk" =>
          /\ current_transfer = None =>
                /\ result'.error_code = "NO_ACTIVE_TRANSFER"
                /\ UNCHANGED <<current_transfer, active_map, temp_map, backup_dir,
                               backup_map>>
          /\ (current_transfer # None
              /\ Get(current_transfer).state \notin {"metadata_received",
                                                     "receiving_chunks"}) =>
                /\ result'.error_code = "INVALID_STATE"
                /\ UNCHANGED <<current_transfer, active_map, temp_map, backup_dir,
                               backup_map>>
          /\ result'.status \in {"chunk_received", "completed"} =>
                /\ current_transfer # None
                /\ Get(current_transfer).state \in {"metadata_received",
                                                    "receiving_chunks"}
          /\ result'.status = "chunk_received" =>
                Get(current_transfer').state = "receiving_chunks"
      ]_vars

\* A chunk that the session is missing was sent while it was paused, and was
\* answered INVALID_STATE.
C29_Witness ==
    /\ call.op = "receive_chunk"
    /\ result.status = "error"
    /\ result.error_code = "INVALID_STATE"
    /\ current_transfer # None
    /\ Get(current_transfer).state = "paused"
    /\ CalledIndex(call) \in Get(current_transfer).missing_chunks

\* The exceptions steps 1 to 4 of _complete_transfer raise.
PipelineFailures ==
    {"Missing chunks", "File size mismatch", "Hash mismatch", "Not a gzipped file",
     "Unsupported compression type", "Decompressed hash mismatch",
     "Invalid JSON structure", "Missing required field in map"}

\* C30: when the reassembled file fails the length, hash, decompression or
\* structure checks nothing is written: the backup directory, the backup_map
\* link and active_path are unchanged and no staging file exists; the session
\* ends failed, no session remains, and a start_transfer with acceptable
\* metadata is accepted next.
C30_FailedValidationWritesNothing ==
    [][/\ (/\ call'.op = "receive_chunk"
           /\ ended' # None
           /\ Get(ended').message \in PipelineFailures)
          => /\ backup_dir' = backup_dir
             /\ backup_map' = backup_map
             /\ active_map' = active_map
             /\ temp_map' = None
             /\ Get(ended').session.state = "failed"
             /\ result'.status = "error"
             /\ result'.error_code = "TRANSFER_VALIDATION_FAILED"
             /\ current_transfer' = None
       /\ (/\ call.op = "receive_chunk"
           /\ ended # None
           /\ Get(ended).message \in PipelineFailures
           /\ call'.op = "start_transfer"
           /\ StartTransferError(Get(call'.metadata)) = "")
          => (result'.status = "ready" /\ current_transfer' # None)
      ]_vars

\* A transfer over an installed map failed the hash check, and no backup
\* exists.
C30_Witness ==
    /\ call.op = "receive_chunk"
    /\ ended # None
    /\ Get(ended).message = "Hash mismatch"
    /\ Get(ended).session.state = "failed"
    /\ Get(ended).active_before # None
    /\ active_map = Get(ended).active_before
    /\ backup_dir = {}
    /\ backup_map = None
    /\ current_transfer = None

\* The chunks of a table laid end to end from index i up to index n - 1.
RECURSIVE ConcatByIndex(_, _, _)
ConcatByIndex(received, i, n) ==
    IF i >= n THEN <<>> ELSE received[i] \o ConcatByIndex(received, i + 1, n)

\* What in-order delivery of the wire bytes w to session s ends with: whether
\* the checks pass, and the bytes to install.
InOrderBytes(s, w) == IF s.is_compressed THEN gzip_decompress(w) ELSE w
InOrderPasses(s, w) ==
    /\ Len(w) = WireSize(s)
    /\ sha256(w) = (IF s.is_compressed THEN s.compressed_hash ELSE s.file_hash)
    /\ s.is_compressed =>
          /\ s.compression_type = "gzip"
          /\ GzipOk(w)
          /\ sha256(gzip_decompress(w)) = s.file_hash
    /\ ValidMapStructure(InOrderBytes(s, w))

\* C21: the outcome does not depend on the order of arrival: whichever missing
\* index a well-formed chunk carries, it is stored, and the transfer completes
\* exactly with the chunk that fills the table, with the result and the bytes
\* at active_path that the chunks give when laid out in index order.
C21_OrderIndependent ==
    [][(/\ call'.op = "receive_chunk"
        /\ current_transfer # None
        /\ AcceptsChunks(Get(current_transfer))
        /\ ChunkError(Get(current_transfer), Get(call'.chunk_data)) = ""
        /\ CalledIndex(call') \notin DOMAIN Get(current_transfer).received_chunks)
       => LET s == Get(current_transfer)
              i == CalledIndex(call')
              table == [k \in (DOMAIN s.received_chunks) \cup {i} |->
                          IF k = i THEN FromHex(Get(Get(call'.chunk_data).data))
                          ELSE s.received_chunks[k]]
              w == ConcatByIndex(table, 0, s.total_chunks)
          IN  IF DOMAIN table = AllIndices(s)
              THEN /\ ended' # None
                   /\ current_transfer' = None
                   /\ Get(ended').session.received_chunks = table
                   /\ Get(ended').message \notin {"OSError", "FileExistsError"}
                         => (result'.status = "completed" <=> InOrderPasses(s, w))
                   /\ result'.status = "completed" =>
                         /\ InOrderPasses(s, w)
                         /\ active_map' = Some(InOrderBytes(s, w))
                         /\ result'.file_hash = sha256(w)
                   /\ result'.status # "completed" => active_map' = active_map
              ELSE /\ ended' = None
                   /\ result'.status = "chunk_received"
                   /\ Get(current_transfer').received_chunks = table
      ]_vars

\* A two-chunk transfer completed with chunk 0, which arrived after chunk 1.
C21_Witness ==
    /\ call.op = "receive_chunk"
    /\ CalledIndex(call) = 0
    /\ result.status = "completed"
    /\ ended # None
    /\ Get(ended).session.total_chunks = 2
    /\ active_map = Some(MapV1)

\* C26: the number of backup files never exceeds max_backups.
C26_BackupsBounded == Cardinality(backup_dir) <= max_backups

\* A backup has been taken while max_backups older ones were there.
C26_Witness ==
    /\ result.status = "completed"
    /\ ended # None
    /\ Get(ended).active_before # None
    /\ Cardinality(backup_dir) > max_backups

\* A session that is not terminal and has been idle for longer than session_timeout.
TimedOut ==
    /\ current_transfer # None
    /\ now - Get(current_transfer).last_activity > session_timeout

\* C25: a session idle for longer than session_timeout is eventually cancelled
\* and cleaned up, whatever its state and whether or not a client is connected.
C25_IdleSessionIsCancelled == TimedOut ~> (current_transfer = None)

\* A session idle for longer than session_timeout while no client is connected
\* and the server's loop is running.
C25_Witness ==
    /\ TimedOut
    /\ current_client = None
    /\ server_loop = "running"

\* C27: while the new map is committed, and after a crash inside the commit,
\* active_map_path holds the complete old map or the complete new one (the old
\* one until the rename), and a reader never finds a partial or missing file.
C27_CommitAtomic ==
    /\ commit_pc \in BeforeReplace => active_map = active_at_start
    /\ commit_pc = "finish" => active_map = Some(CommitData(Get(current_transfer)))
    /\ commit_pc = "crashed" =>
          active_map = IF Get(ended).message = "crash before replace"
                       THEN Get(ended).active_before
                       ELSE Some(CommitData(Get(ended).session))
    /\ active_map \in {Some(f) : f \in CompressibleMaps}
    /\ observed \in {Some(f) : f \in CompressibleMaps}

\* A crash before the rename, with part of the new map in the staging file.
C27_Witness ==
    /\ commit_pc = "crashed"
    /\ Get(ended).message = "crash before replace"
    /\ temp_map # None
    /\ Len(Get(temp_map)) = 1
    /\ active_map = Some(MapV1)
    /\ CommitData(Get(ended).session) = MapV2

\* C31: the pipeline runs in a fixed order.  A session enters Decompressing only
\* when it is compressed and only after the wire hash matched compressed_hash;
\* an uncompressed session never enters it; and a completed session has
\* installed the canonical bytes, whose SHA-256 is metadata.file_hash, after
\* (when compressed) the hash of the decompressed bytes matched file_hash.
C31_PipelineOrder ==
    (ended # None /\ Get(ended).trace # <<>>)
    => LET e == Get(ended)
           s == e.session
           w == ConcatByIndex(s.received_chunks, 0, s.total_chunks)
           decompressed == \E i \in 1..Len(e.trace) : e.trace[i] = "decompressing"
       IN  /\ e.trace[1] = "validating"
           /\ \A i \in 2..Len(e.trace) : e.trace[i] = "decompressing" /\ i = 2
           /\ decompressed => s.is_compressed /\ sha256(w) = s.compressed_hash
           /\ ~s.is_compressed => ~decompressed
           /\ s.state = "completed" =>
                 /\ sha256(w) = (IF s.is_compressed THEN s.compressed_hash ELSE s.file_hash)
                 /\ s.is_compressed => decompressed /\ GzipOk(w)
                 /\ active_map = Some(IF s.is_compressed THEN gzip_decompress(w) ELSE w)
                 /\ sha256(Get(active_map)) = Get(s.metadata.file_hash)

\* A compressed session completed after passing through Decompressing.
C31_Witness ==
    /\ ended # None
    /\ Get(ended).session.state = "completed"
    /\ Get(ended).session.is_compressed
    /\ Get(ended).trace = <<"validating", "decompressing">>
    /\ active_map = Some(MapV1)

\* C32: a completed result is produced only by the step that follows the
\* successful rename, for the session whose map the rename installed; an OSError
\* raised by the write to the staging file or by the rename ends the session with
\* an error result, and the session is gone.
C32_CompletedAfterRename ==
    [][/\ (result'.status = "completed" /\ result' # result)
          => /\ commit_pc = "finish"
             /\ current_transfer # None
             /\ result'.session_id = Get(current_transfer).session_id
             /\ temp_map = None
             /\ active_map = Some(CommitData(Get(current_transfer)))
             /\ active_map' = active_map
       /\ (commit_pc \in {"open", "write", "replace"} /\ commit_pc' = "idle")
          => /\ result'.status = "error"
             /\ result'.error_code = "TRANSFER_VALIDATION_FAILED"
             /\ current_transfer' = None
             /\ Get(ended').session.session_id = Get(current_transfer).session_id
             /\ Get(ended').session.state = "failed"
             /\ active_map' = active_map
       /\ current_transfer' # None => Get(current_transfer').session_id = next_session'
      ]_vars

\* A completed result returned over an installed map that differs from the old one.
C32_Witness ==
    /\ result.status = "completed"
    /\ commit_pc = "idle"
    /\ ended # None
    /\ Get(ended).session.state = "completed"
    /\ Get(ended).active_before = Some(MapV1)
    /\ active_map = Some(MapV2)

\* The backup file the backup_map link points to, if there is one.
LinkedBackups == {b \in backup_dir : backup_map = Some(b.name)}

\* C33: from the moment the staging file is opened for an install over an
\* existing map, and after the install, there is a backup with the exact
\* contents active_map_path had before, it is the most recent backup, and the
\* backup_map link points to it; also for two installs in the same second.
C33_BackupBeforeInstall ==
    /\ (commit_pc \in {"open", "write", "replace", "finish"} /\ active_at_start # None)
       => /\ \E b \in LinkedBackups : b.data = Get(active_at_start)
          /\ \A b \in LinkedBackups : \A c \in backup_dir : c.name <= b.name
    /\ (commit_pc = "idle" /\ result.status = "completed" /\ ended # None
          /\ Get(ended).active_before # None)
       => /\ \E b \in LinkedBackups : b.data = Get(Get(ended).active_before)
          /\ \A b \in LinkedBackups : \A c \in backup_dir : c.name <= b.name
    /\ \A b \in backup_dir : \A c \in backup_dir : b.name = c.name => b = c

\* The second of two installs in the same second, each over an existing map.
C33_Witness ==
    /\ commit_pc = "idle"
    /\ result.status = "completed"
    /\ ended # None
    /\ Get(ended).active_before = Some(MapV2)
    /\ Get(ended).session.session_id = 2
    /\ Get(ended).session.start_time = now
    /\ backup_dir = {[name |-> now, data |-> MapV2]}

\* The chunk table of session s and its counters agree.
TableConsistent(s) ==
    /\ (DOMAIN s.received_chunks) \cap s.missing_chunks = {}
    /\ (DOMAIN s.received_chunks) \cup s.missing_chunks = AllIndices(s)
    /\ s.chunks_received = Cardinality(DOMAIN s.received_chunks)
    /\ s.metrics.chunks_transferred = Cardinality(DOMAIN s.received_chunks)
    /\ s.metrics.bytes_transferred = SumOfLengths(s.received_chunks, DOMAIN s.received_chunks)

\* C34: while the chunk table is partially updated the only step taken is the
\* next statement of the chunk handler itself; no other handler (transfer_init,
\* transfer_control, connect, disconnect, the timeout check) runs in between.
C34_ChunkStoreIndivisible ==
    [][(current_transfer # None /\ ~TableConsistent(Get(current_transfer)))
       => /\ chunk_task \in {"stored", "discarded", "counted"}
          /\ chunk_task' # chunk_task
          /\ chunk_task' \in {"discarded", "counted", "idle", "sleep"}
          /\ server_call' = server_call
          /\ current_client' = current_client
          /\ now' = now
          /\ current_transfer' # None =>
                Get(current_transfer').session_id = Get(current_transfer).session_id
      ]_vars

\* A chunk is in the table while its index is still in missing_chunks, with a
\* client connected.
C34_Witness ==
    /\ chunk_task = "stored"
    /\ current_transfer # None
    /\ (DOMAIN Get(current_transfer).received_chunks)
          \cap Get(current_transfer).missing_chunks # {}
    /\ Get(current_transfer).chunks_received = 1
    /\ current_client # None

\* C37: the disconnect the chunk handler issues after its one-second sleep
\* does not cancel a session started during the sleep.
C37_DeferredDisconnectSparesNewSession ==
    [][(chunk_task = "sleep" /\ chunk_task' = "idle" /\ current_transfer # None)
       => current_transfer' = current_transfer]_vars

\* The chunk handler sleeps after a completed transfer while a new session,
\* started by a transfer_init, is waiting for chunks and the client is connected.
C37_Witness ==
    /\ chunk_task = "sleep"
    /\ current_client # None
    /\ current_transfer # None
    /\ Get(current_transfer).session_id = 2
    /\ server_call.op = "transfer_init"

\* The states that end a session, and the states reachable from a set of
\* states in at most n transitions of the table.
TerminalStates == {"completed", "failed", "cancelled"}
RECURSIVE ReachableIn(_, _)
ReachableIn(S, n) ==
    IF n = 0 THEN S
    ELSE ReachableIn(S \cup UNION {GetValidNextStates(s) : s \in S}, n - 1)

\* C35: the table allows CANCELLED and FAILED from every non-terminal state,
\* gives every terminal state IDLE as its only successor, and reaches every
\* state from IDLE.
C35_TableMatchesStateMachine ==
    /\ transition.op = "can_transition" =>
          /\ (transition.from_state \notin TerminalStates
                /\ transition.to_state \in {"cancelled", "failed"})
             => transition.returned = {TRUE}
          /\ transition.from_state \in TerminalStates
             => (transition.returned = {TRUE} <=> transition.to_state = "idle")
    /\ transition.op = "get_valid_next_states" =>
          ReachableIn({"idle"}, Cardinality(ProtocolStates)) = ProtocolStates

\* can_transition(METADATA_RECEIVED, CANCELLED) has been called.
C35_Witness ==
    /\ transition.op = "can_transition"
    /\ transition.from_state = "metadata_received"
    /\ transition.to_state = "cancelled"
    /\ transition.returned = {FALSE}

\* Metadata that names a compression but lacks compressed_size or
\* compressed_hash, or names a compression other than none and gzip.
CompressionIllFormed(metadata) ==
    LET compression == IF metadata.compression = None THEN "none"
                       ELSE Get(metadata.compression)
    IN  \/ compression \notin {"none", "gzip"}
        \/ /\ compression # "none"
           /\ (metadata.compressed_size = None \/ metadata.compressed_hash = None)

\* C36: start_transfer answers metadata with ill-formed compression fields
\* with an error and creates no session for it.
C36_IllFormedCompressionRejected ==
    (call.op = "start_transfer" /\ CompressionIllFormed(Get(call.metadata)))
    => /\ result.status = "error"
       /\ (current_transfer # None => Get(current_transfer).metadata # Get(call.metadata))

\* start_transfer has answered "ready" to metadata naming the compression lz4.
C36_Witness ==
    /\ call.op = "start_transfer"
    /\ Get(call.metadata).compression = Some("lz4")
    /\ result.status = "ready"
    /\ current_transfer # None
    /\ Get(current_transfer).metadata = Get(call.metadata)

\* C38: generate_challenge and verify_challenge_response for one client leave
\* every other client's session as it was, and an authenticated client stays
\* authenticated until its session lifetime has elapsed or invalidate_session
\* is called for it.
C38_AuthStatePerClient ==
    [][\A c \in ClientIds :
          /\ (/\ auth_call'.op \in {"generate_challenge", "verify_challenge_response"}
              /\ auth_call'.client_id # c)
             => sessions'[c] = sessions[c]
          /\ (IsAuthenticated(c) /\ ~IsAuthenticated(c)')
             => \/ now' - Get(sessions[c]).challenge_time > session_lifetime
                \/ auth_call' = AuthCall("invalidate_session", c, None)]_vars

\* generate_challenge for client 1 has removed the session of client 2, which
\* had authenticated.
C38_Witness ==
    /\ auth_call = AuthCall("generate_challenge", 1, None)
    /\ auth_result.status = "challenge_generated"
    /\ sessions[2] = None
    /\ \E t \in 0..MaxTime : md5(<<2, t>>) \in issued

\* C39: verify_challenge_response for a client that is authenticated returns
\* an error and leaves the client's session authenticated.
C39_ReplayLeavesAuthenticated ==
    [][\A c \in Clients :
          (/\ IsAuthenticated(c)
           /\ auth_call'.op = "verify_challenge_response"
           /\ auth_call'.client_id = c
           /\ sessions'[c] # None
           /\ Get(sessions'[c]).attempts = Get(sessions[c]).attempts + 1)
          => /\ auth_result'.status = "error"
             /\ Get(sessions'[c]).state = "authenticated"]_vars

\* The only challenge drawn was answered correctly, and a second response to
\* it has been refused for the state of the session.
C39_Witness ==
    /\ next_challenge = 1
    /\ auth_call.op = "verify_challenge_response"
    /\ auth_call.client_id = 1
    /\ auth_result = AuthError("INVALID_STATE")
    /\ Get(sessions[1]).attempts = 2
    /\ Get(sessions[1]).state = "failed"
    /\ \E t \in 0..MaxTime : md5(<<1, t>>) \in issued

\* C40: the completed result of a session reports the SHA-256 and the length
\* of the bytes installed at active_map_path, the former being
\* metadata.file_hash, and the version of the metadata.
C40_CompletedResultDescribesInstalledMap ==
    (result.status = "completed" /\ ended # None /\ active_map # None)
    => LET metadata == Get(ended).session.metadata
       IN  /\ result.file_hash = Get(metadata.file_hash)
           /\ result.file_hash = sha256(Get(active_map))
           /\ result.file_size = Len(Get(active_map))
           /\ result.new_version = Get(metadata.version).v

\* A gzip session completed and its result carries the hash of the wire bytes.
C40_Witness ==
    /\ result.status = "completed"
    /\ ended # None
    /\ Get(ended).session.is_compressed
    /\ active_map = Some(MapV1)
    /\ result.file_hash = sha256(gzip_compress(MapV1))
    /\ result.file_hash # Get(Get(ended).session.metadata.file_hash)

====
